---------------------------- MODULE Spec2Model ----------------------------
(***************************************************************************)
(* Model of the content pipeline of the OpenVoxel launcher CLI:            *)
(*   zipper.rs  get_root_folder_name, extract_zip                          *)
(*   map.rs     download_map, install_map_from_path, install_map           *)
(*   mods.rs    fetch_mod_version_data, get_mod_download_urls              *)
(*   mc.rs      find_jar_files, deduplicate_libraries, compare_versions    *)
(* Paths are sequences of components, file names and version strings are   *)
(* sequences of one-character strings.                                     *)
(***************************************************************************)
EXTENDS Integers, Sequences, FiniteSets, TLC

VARIABLES
    \* ---- zipper.rs ----
    zip_archive,   \* the entries of the archive being read (raw entry names)
    zip_fail,      \* index of the entry whose file-system write fails (0: none)
    dirs,          \* directories existing on disk (canonical absolute paths)
    files,         \* regular files existing on disk (canonical absolute paths)
    written,       \* paths extract_zip has created or written so far
    out_paths,     \* out_path computed for each entry processed, by index
    strip_used,    \* strip_prefix chosen by extract_zip (NoPrefix: None)
    zip_res,       \* result of extract_zip: "none" (not called), "ok", "err"
    root_res,      \* result of get_root_folder_name: RootNone, RootPanic, RootName
    \* ---- mc.rs: compare_versions ----
    ver_a,         \* first argument of compare_versions
    ver_b,         \* second argument
    cmp_res,       \* the Ordering returned ("none": not called)
    \* ---- mc.rs: deduplicate_libraries ----
    lib_before,    \* jars under the libraries directory before the pass
    lib_tree,      \* jars under the libraries directory now
    lib_failed,    \* jars whose remove_file failed during the pass
    dedup_res,     \* result of deduplicate_libraries: "none", "ok", "err"
    \* ---- mods.rs: get_mod_download_urls ----
    mod_graph,     \* the remote endpoint: identifier -> NoRelease or a release
    to_process,    \* the work queue (a Vec used as a stack)
    visited,       \* the visited set
    download_urls, \* names of the ModDownload entries pushed so far, in order
    fetched,       \* identifiers queried at the endpoint so far, in order
    res_pc,        \* "idle", "run" (in the loop), "ok" or "err" (returned)
    \* ---- map.rs: install_map ----
    cache,         \* content of .cache/games/<id>.zip (NoFile: absent)
    expected_hash, \* text served by the .sha256 endpoint in this call
    dl_res,        \* result of download_map in this call (discarded by the caller)
    map_res,       \* result of install_map in this call
    map_log,       \* what this call did so far, in order
    map_pc,        \* "idle", "verify", "download", "install", "done", "end"
    map_calls,     \* calls of install_map started so far
    launched,      \* launch was invoked by the current run_map
    \* ---- mc.rs: compare_versions used as the order of sort_by ----
    ver_c,         \* a third version string
    ord_res,       \* the Orderings of the pairs among ver_a, ver_b, ver_c
    \* ---- map.rs: find_maps ----
    catalog,       \* the maps served by the catalog endpoint, in order
    query,         \* the input of find_maps
    find_res,      \* FindNotCalled, FindNone or FindSome(maps)
    \* ---- mods.rs: download_mods ----
    mods_dir,      \* the files of .minecraft/mods: [name, gen]
    saved_version, \* content of .minecraft/mods/.ovl (NoMarker: absent)
    dm_version,    \* the version argument of download_mods
    dm_todo,       \* download_urls still to be fetched and written
    dm_res,        \* result of download_mods: "none", "ok", "err"
    dm_pc,         \* "idle", "resolve", "write", "done", "launched"
    mods_before,   \* the files of .minecraft/mods when download_mods was entered
    installed,     \* history: versions whose mods a successful run installed
    launches,      \* calls of launch started so far
    \* ---- main.rs: the Play and Search commands ----
    play_cmd,      \* "none", "play" or "search"
    play_pc,       \* "idle", "found", "call", "end"
    selected_map,  \* the map the command obtained (NoMap: none)
    run_map_fut,   \* the future of run_map: "none", "created", "dropped"
    \* ---- auth.rs: the accounts file ----
    acc_file,      \* the file .accounts: [exists, selected, accounts]
    acc_last,      \* the last command run on it ("none": none yet)
    acc_ops        \* commands run so far

zipVars == <<zip_archive, zip_fail, dirs, files, written, out_paths, strip_used,
             zip_res, root_res>>
verVars == <<ver_a, ver_b, cmp_res>>
libVars == <<lib_before, lib_tree, lib_failed, dedup_res>>
modVars == <<mod_graph, to_process, visited, download_urls, fetched, res_pc>>
mapVars == <<cache, expected_hash, dl_res, map_res, map_log, map_pc, map_calls,
             launched>>
ordVars == <<ver_c, ord_res>>
findVars == <<catalog, query, find_res>>
dmVars == <<mods_dir, saved_version, dm_version, dm_todo, dm_res, dm_pc,
            mods_before, installed, launches>>
playVars == <<play_cmd, play_pc, selected_map, run_map_fut>>
accVars == <<acc_file, acc_last, acc_ops>>

vars == <<zipVars, verVars, libVars, modVars, mapVars, ordVars, findVars, dmVars,
          playVars, accVars>>

(***************************************************************************)
(* std::path as used by zipper.rs                                          *)
(***************************************************************************)
RootDir == "/"
ParentDir == ".."
CurDir == "."

\* Path::components(): "." is dropped everywhere but in first position.
RECURSIVE DropCurDir(_)
DropCurDir(s) ==
    IF s = <<>> THEN <<>>
    ELSE IF Head(s) = CurDir THEN DropCurDir(Tail(s))
         ELSE <<Head(s)>> \o DropCurDir(Tail(s))

Components(p) ==
    IF p = <<>> THEN <<>> ELSE <<Head(p)>> \o DropCurDir(Tail(p))

\* Path::join: an absolute argument replaces the base.
Join(base, p) ==
    IF p # <<>> /\ Head(p) = RootDir THEN p ELSE base \o p

\* Path::strip_prefix: Ok(rest) when the components of pre start those of p.
StripPrefix(p, pre) ==
    LET pc == Components(p)
        qc == Components(pre)
    IN IF Len(qc) <= Len(pc) /\ SubSeq(pc, 1, Len(qc)) = qc
       THEN [ok |-> TRUE, rest |-> SubSeq(pc, Len(qc) + 1, Len(pc))]
       ELSE [ok |-> FALSE, rest |-> <<>>]

\* Path::parent: None for the empty path and for the root.
HasParent(p) == Components(p) # <<>> /\ Components(p) # <<RootDir>>
PathParent(p) == SubSeq(Components(p), 1, Len(Components(p)) - 1)

\* The directory or file the operating system resolves a path to.
RECURSIVE Canon(_)
Canon(p) ==
    IF p = <<>> THEN <<>>
    ELSE LET q == Canon(SubSeq(p, 1, Len(p) - 1))
             c == p[Len(p)]
         IN CASE c = RootDir -> <<RootDir>>
              [] c = CurDir -> q
              [] c = ParentDir -> IF Len(q) > 1 THEN SubSeq(q, 1, Len(q) - 1) ELSE q
              [] OTHER -> q \o <<c>>

IsDescendant(p, d) == Len(d) <= Len(p) /\ SubSeq(p, 1, Len(d)) = d

(***************************************************************************)
(* The file system touched by extract_zip                                  *)
(***************************************************************************)
\* fs::create_dir_all(p): every missing prefix of p is created in turn; a
\* prefix that is a regular file makes it fail.
RECURSIVE CreateDirAllFrom(_, _, _)
CreateDirAllFrom(p, k, st) ==
    IF k > Len(p) THEN st
    ELSE LET q == Canon(SubSeq(p, 1, k))
         IN IF q \in st.files THEN [st EXCEPT !.res = "err"]
            ELSE CreateDirAllFrom(p, k + 1,
                    [st EXCEPT !.dirs = @ \cup {q},
                               !.written = IF q \in st.dirs THEN @ ELSE @ \cup {q}])

CreateDirAll(p, st) == CreateDirAllFrom(p, 1, st)

\* File::create(p) followed by io::copy: creates or truncates the file.
FileCreate(p, st) ==
    LET q == Canon(p)
    IN IF q \in st.dirs \/ q = <<>> THEN [st EXCEPT !.res = "err"]
       ELSE [st EXCEPT !.files = @ \cup {q}, !.written = @ \cup {q}]

(***************************************************************************)
(* zipper.rs                                                               *)
(***************************************************************************)
EntryName(c, d) == [comps |-> c, dir |-> d]

\* Entry names an archive may carry: (dir = TRUE: the raw name ends in '/').
EntryNames ==
    { EntryName(<<"top">>, TRUE),
      EntryName(<<"top", "a">>, FALSE),
      EntryName(<<"top", "sub", "a">>, FALSE),
      EntryName(<<"other", "a">>, FALSE),
      EntryName(<<"a">>, FALSE),
      EntryName(<<"..", "a">>, FALSE),
      EntryName(<<"top", "..", "a">>, FALSE),
      EntryName(<<"top", "..", "..", "a">>, FALSE),
      EntryName(<<"/", "etc", "a">>, FALSE),
      EntryName(<<".", "a">>, FALSE),
      EntryName(<<>>, FALSE) }

MaxEntries == 2

Archives == UNION { [1..n -> EntryNames] : n \in 0..MaxEntries }

\* extract_to of the model, and the archive's file stem.
Dest == <<"/", "saves", "world">>
ZipStem == "archive"

\* ZipFile::enclosed_name: None for an absolute name and for one that climbs
\* above its starting directory.
RECURSIVE DepthOk(_, _)
DepthOk(cs, depth) ==
    IF cs = <<>> THEN TRUE
    ELSE CASE Head(cs) = RootDir -> FALSE
           [] Head(cs) = ParentDir -> depth > 0 /\ DepthOk(Tail(cs), depth - 1)
           [] Head(cs) = CurDir -> DepthOk(Tail(cs), depth)
           [] OTHER -> DepthOk(Tail(cs), depth + 1)

EnclosedName(e) ==
    IF DepthOk(Components(e.comps), 0)
    THEN [some |-> TRUE, path |-> e.comps]
    ELSE [some |-> FALSE, path |-> <<>>]

\* Outcomes of get_root_folder_name ("none": not called).
RootNone == [kind |-> "none", name |-> ""]
RootPanic == [kind |-> "panic", name |-> ""]
RootName(n) == [kind |-> "name", name |-> n]

\* get_root_folder_name: the HashSet of first components (lines 12-21); the
\* unwrap of line 16 panics on an entry without enclosed name.
RootTopDirs(archive) ==
    { Components(EnclosedName(archive[i]).path)[1] :
        i \in { j \in 1..Len(archive) :
                  Components(EnclosedName(archive[j]).path) # <<>> } }

get_root_folder_name(archive, stem) ==
    IF \E i \in 1..Len(archive) : ~EnclosedName(archive[i]).some
    THEN RootPanic
    ELSE LET top_dirs == RootTopDirs(archive)
         IN IF Cardinality(top_dirs) = 1
            THEN RootName(CHOOSE c \in top_dirs : TRUE)
            ELSE RootName(stem)

\* extract_zip lines 34-43: first components in order of first appearance.
RECURSIVE TopDirs(_, _, _)
TopDirs(archive, i, acc) ==
    IF i > Len(archive) THEN acc
    ELSE LET cs == Components(archive[i].comps)
         IN IF cs # <<>> /\ ~(\E k \in 1..Len(acc) : acc[k] = cs[1])
            THEN TopDirs(archive, i + 1, Append(acc, cs[1]))
            ELSE TopDirs(archive, i + 1, acc)

NoPrefix == <<>>

\* lines 45-49 with the test "at least one first component".
StripDecisionAny(top_dirs) == IF Len(top_dirs) >= 1 THEN <<top_dirs[1]>> ELSE NoPrefix

\* lines 45-49
StripDecision(top_dirs) == IF Len(top_dirs) = 1 THEN <<top_dirs[1]>> ELSE NoPrefix

\* lines 53-62
OutPath(e, strip_prefix, extract_to) ==
    IF strip_prefix # NoPrefix
    THEN LET s == StripPrefix(e.comps, strip_prefix)
         IN IF s.ok THEN Join(extract_to, s.rest) ELSE Join(extract_to, e.comps)
    ELSE Join(extract_to, e.comps)

\* lines 64-72 for one entry; fail: the operating system refuses the write.
ExtractEntry(e, out_path, fail, st) ==
    IF fail THEN [st EXCEPT !.res = "err"]
    ELSE IF e.dir THEN CreateDirAll(out_path, st)
    ELSE LET st1 == IF HasParent(out_path)
                    THEN CreateDirAll(PathParent(out_path), st)
                    ELSE st
         IN IF st1.res = "err" THEN st1 ELSE FileCreate(out_path, st1)

\* lines 51-75: entries in order, the first error ends the call.
RECURSIVE ExtractFrom(_, _, _, _, _, _)
ExtractFrom(archive, i, strip_prefix, extract_to, failAt, st) ==
    IF i > Len(archive) THEN [st EXCEPT !.res = "ok"]
    ELSE LET out_path == OutPath(archive[i], strip_prefix, extract_to)
             st1 == ExtractEntry(archive[i], out_path, failAt = i,
                                 [st EXCEPT !.outs = Append(@, out_path)])
         IN IF st1.res = "err" THEN st1
            ELSE ExtractFrom(archive, i + 1, strip_prefix, extract_to, failAt, st1)

FsState(d, f) ==
    [dirs |-> d, files |-> f, written |-> {}, outs |-> <<>>, strip |-> NoPrefix,
     res |-> "run"]

extract_zip(archive, extract_to, failAt, d, f) ==
    LET strip_prefix == StripDecision(TopDirs(archive, 1, <<>>))
        st == ExtractFrom(archive, 1, strip_prefix, extract_to, failAt, FsState(d, f))
    IN [st EXCEPT !.strip = strip_prefix]

(***************************************************************************)
(* Strings: a string is the sequence of its characters.                    *)
(***************************************************************************)
StartsWith(s, p) == Len(p) <= Len(s) /\ SubSeq(s, 1, Len(p)) = p
EndsWith(s, p) == Len(p) <= Len(s) /\ SubSeq(s, Len(s) - Len(p) + 1, Len(s)) = p
Contains(s, p) == \E i \in 1..(Len(s) - Len(p) + 1) : SubSeq(s, i, i + Len(p) - 1) = p

\* str::strip_suffix / strip_prefix followed by unwrap_or(s)
StripSuffixOr(s, p) == IF EndsWith(s, p) THEN SubSeq(s, 1, Len(s) - Len(p)) ELSE s
StripPrefixOr(s, p) == IF StartsWith(s, p) THEN SubSeq(s, Len(p) + 1, Len(s)) ELSE s

\* str::split(ch): the pieces between the separators, empty ones included.
RECURSIVE SplitFrom(_, _, _, _)
SplitFrom(s, ch, i, cur) ==
    IF i > Len(s) THEN <<cur>>
    ELSE IF s[i] = ch THEN <<cur>> \o SplitFrom(s, ch, i + 1, <<>>)
         ELSE SplitFrom(s, ch, i + 1, Append(cur, s[i]))

Split(s, ch) == SplitFrom(s, ch, 1, <<>>)

\* [String]::join(ch)
RECURSIVE JoinStr(_, _)
JoinStr(parts, ch) ==
    IF parts = <<>> THEN <<>>
    ELSE IF Len(parts) = 1 THEN parts[1]
         ELSE parts[1] \o <<ch>> \o JoinStr(Tail(parts), ch)

Digits == <<"0", "1", "2", "3", "4", "5", "6", "7", "8", "9">>
IsAsciiDigit(c) == \E d \in 1..10 : Digits[d] = c
DigitValue(c) == (CHOOSE d \in 1..10 : Digits[d] = c) - 1

\* str::parse::<u32>: an optional '+' and at least one digit, nothing else.
\* (The segments of the model are short: overflow of u32 does not arise.)
RECURSIVE DecimalValue(_)
DecimalValue(s) ==
    IF s = <<>> THEN 0
    ELSE 10 * DecimalValue(SubSeq(s, 1, Len(s) - 1)) + DigitValue(s[Len(s)])

ParseU32(s) ==
    LET body == IF s # <<>> /\ s[1] = "+" THEN Tail(s) ELSE s
    IN IF body # <<>> /\ \A i \in 1..Len(body) : IsAsciiDigit(body[i])
       THEN [ok |-> TRUE, val |-> DecimalValue(body)]
       ELSE [ok |-> FALSE, val |-> 0]

(***************************************************************************)
(* mc.rs: compare_versions                                                 *)
(***************************************************************************)
\* split('.').filter_map(|s| s.parse().ok()).collect(): the segments that
\* parse, in order; the others are left out.
RECURSIVE ParsedParts(_)
ParsedParts(segs) ==
    IF segs = <<>> THEN <<>>
    ELSE LET r == ParseU32(Head(segs))
         IN IF r.ok THEN <<r.val>> \o ParsedParts(Tail(segs))
            ELSE ParsedParts(Tail(segs))

VersionParts(v) == ParsedParts(Split(v, "."))

\* u32::cmp written on the decimal text of the numbers, most significant
\* digit first (a comparison as text).
RECURSIVE DecimalText(_)
DecimalText(n) ==
    IF n < 10 THEN <<n>> ELSE DecimalText(n \div 10) \o <<n % 10>>

RECURSIVE TextCmp(_, _)
TextCmp(a, b) ==
    IF a = <<>> /\ b = <<>> THEN "Equal"
    ELSE IF a = <<>> THEN "Less"
    ELSE IF b = <<>> THEN "Greater"
    ELSE IF Head(a) < Head(b) THEN "Less"
    ELSE IF Head(a) > Head(b) THEN "Greater"
    ELSE TextCmp(Tail(a), Tail(b))

CmpAsText(a, b) == TextCmp(DecimalText(a), DecimalText(b))

\* A comparison that never answers Greater.
CmpNeverGreater(a, b) == IF a = b THEN "Equal" ELSE "Less"

\* u32::cmp
CmpU32(a, b) == IF a < b THEN "Less" ELSE IF a > b THEN "Greater" ELSE "Equal"

Max(a, b) == IF a >= b THEN a ELSE b

\* A missing part read as 1.
PartOrOne(parts, i) == IF i <= Len(parts) THEN parts[i] ELSE 1

\* parts.get(i).copied().unwrap_or(0)
PartOrZero(parts, i) == IF i <= Len(parts) THEN parts[i] ELSE 0

\* lines 207-217: position by position, a missing part counts as 0.
RECURSIVE CompareFrom(_, _, _)
CompareFrom(p1, p2, i) ==
    IF i > Max(Len(p1), Len(p2)) THEN "Equal"
    ELSE LET v1_part == PartOrZero(p1, i)
             v2_part == PartOrZero(p2, i)
             c == CmpU32(v1_part, v2_part)
         IN IF c = "Equal" THEN CompareFrom(p1, p2, i + 1) ELSE c

compare_versions(v1, v2) == CompareFrom(VersionParts(v1), VersionParts(v2), 1)

(***************************************************************************)
(* mc.rs: extract_library_name, extract_version, find_jar_files,           *)
(* deduplicate_libraries                                                   *)
(***************************************************************************)
\* String literals of mc.rs.
Str_jar == <<".", "j", "a", "r">>
Str_asm == <<"a", "s", "m">>
Str_asm_ == <<"a", "s", "m", "-">>
Str_tree == <<"t", "r", "e", "e">>
Str_util == <<"u", "t", "i", "l">>
Str_analysis == <<"a", "n", "a", "l", "y", "s", "i", "s">>
Str_commons == <<"c", "o", "m", "m", "o", "n", "s">>
Str_asm_tree == <<"a", "s", "m", "-", "t", "r", "e", "e">>
Str_asm_util == <<"a", "s", "m", "-", "u", "t", "i", "l">>
Str_asm_analysis == <<"a", "s", "m", "-", "a", "n", "a", "l", "y", "s", "i", "s">>
Str_asm_commons == <<"a", "s", "m", "-", "c", "o", "m", "m", "o", "n", "s">>
Str_asm_tree_ == <<"a", "s", "m", "-", "t", "r", "e", "e", "-">>
Str_asm_util_ == <<"a", "s", "m", "-", "u", "t", "i", "l", "-">>
Str_asm_analysis_ == <<"a", "s", "m", "-", "a", "n", "a", "l", "y", "s", "i", "s", "-">>
Str_asm_commons_ == <<"a", "s", "m", "-", "c", "o", "m", "m", "o", "n", "s", "-">>
Str_0_0_0 == <<"0", ".", "0", ".", "0">>

\* File names found under the libraries directory.
Jar_asm_9_1 == <<"a", "s", "m", "-", "9", ".", "1", ".", "j", "a", "r">>
Jar_asm_9_6 == <<"a", "s", "m", "-", "9", ".", "6", ".", "j", "a", "r">>
Jar_asm_9_6_0 == <<"a", "s", "m", "-", "9", ".", "6", ".", "0", ".", "j", "a", "r">>
Jar_asm_10_0 == <<"a", "s", "m", "-", "1", "0", ".", "0", ".", "j", "a", "r">>
Jar_asm_tree_9_1 == <<"a", "s", "m", "-", "t", "r", "e", "e", "-", "9", ".", "1", ".", "j", "a", "r">>
Jar_asm_tree_9_6 == <<"a", "s", "m", "-", "t", "r", "e", "e", "-", "9", ".", "6", ".", "j", "a", "r">>
Jar_asm == <<"a", "s", "m", ".", "j", "a", "r">>
Jar_guava_30_0 == <<"g", "u", "a", "v", "a", "-", "3", "0", ".", "0", ".", "j", "a", "r">>
Jar_guava_31_0 == <<"g", "u", "a", "v", "a", "-", "3", "1", ".", "0", ".", "j", "a", "r">>

JarNames ==
    { Jar_asm_9_1,
      Jar_asm_9_6,
      Jar_asm_9_6_0,
      Jar_asm_10_0,
      Jar_asm_tree_9_1,
      Jar_asm_tree_9_6,
      Jar_asm,
      Jar_guava_30_0,
      Jar_guava_31_0 }

\* lines 118-122 and 159-163: the test for the plain "asm" jar.
IsPlainAsm(name_without_ext) ==
    /\ StartsWith(name_without_ext, Str_asm_)
    /\ ~Contains(name_without_ext, Str_tree)
    /\ ~Contains(name_without_ext, Str_util)
    /\ ~Contains(name_without_ext, Str_analysis)
    /\ ~Contains(name_without_ext, Str_commons)

LooksLikeVersion(part) == part # <<>> /\ IsAsciiDigit(part[1])

\* lines 143-147: the parts before the first one that starts with a digit.
FirstVersionPart(parts) ==
    { i \in 1..Len(parts) :
        LooksLikeVersion(parts[i]) /\ \A j \in 1..(i - 1) : ~LooksLikeVersion(parts[j]) }

extract_library_name(filename) ==
    LET name_without_ext == StripSuffixOr(filename, Str_jar)
        parts == Split(name_without_ext, "-")
    IN IF IsPlainAsm(name_without_ext) THEN Str_asm
       ELSE IF StartsWith(name_without_ext, Str_asm_tree_) THEN Str_asm_tree
       ELSE IF StartsWith(name_without_ext, Str_asm_util_) THEN Str_asm_util
       ELSE IF StartsWith(name_without_ext, Str_asm_analysis_) THEN Str_asm_analysis
       ELSE IF StartsWith(name_without_ext, Str_asm_commons_) THEN Str_asm_commons
       ELSE IF Len(parts) > 1 /\ FirstVersionPart(parts) # {}
            THEN LET i == CHOOSE k \in FirstVersionPart(parts) : TRUE
                 IN JoinStr(SubSeq(parts, 1, i - 1), "-")
       ELSE name_without_ext

\* lines 192-196: the last part that starts with a digit and holds a dot.
LastVersionPart(parts) ==
    { i \in 1..Len(parts) :
        /\ LooksLikeVersion(parts[i]) /\ Contains(parts[i], <<".">>)
        /\ \A j \in (i + 1)..Len(parts) :
              ~(LooksLikeVersion(parts[j]) /\ Contains(parts[j], <<".">>)) }

\* extract_version followed by unwrap_or_else(|| "0.0.0") (line 475).
extract_version(filename) ==
    LET name_without_ext == StripSuffixOr(filename, Str_jar)
        parts == Split(name_without_ext, "-")
    IN IF IsPlainAsm(name_without_ext) THEN StripPrefixOr(name_without_ext, Str_asm_)
       ELSE IF StartsWith(name_without_ext, Str_asm_tree_)
            THEN StripPrefixOr(name_without_ext, Str_asm_tree_)
       ELSE IF StartsWith(name_without_ext, Str_asm_util_)
            THEN StripPrefixOr(name_without_ext, Str_asm_util_)
       ELSE IF StartsWith(name_without_ext, Str_asm_analysis_)
            THEN StripPrefixOr(name_without_ext, Str_asm_analysis_)
       ELSE IF StartsWith(name_without_ext, Str_asm_commons_)
            THEN StripPrefixOr(name_without_ext, Str_asm_commons_)
       ELSE IF Len(parts) > 1 /\ LastVersionPart(parts) # {}
            THEN parts[CHOOSE k \in LastVersionPart(parts) : TRUE]
       ELSE Str_0_0_0

\* line 55
asm_libraries == {Str_asm, Str_asm_tree, Str_asm_util, Str_asm_analysis, Str_asm_commons}

\* A jar on disk: the directory holding it and its file name.
JarFile(d, n) == [dir |-> d, name |-> n]

JarFiles ==
    { JarFile("d1", n) : n \in JarNames }
        \cup { JarFile("d2", Jar_asm_9_6) }

\* lines 474-475: what find_jar_files infers from each file name.
Inferred ==
    [n \in JarNames |->
        [lib_name |-> extract_library_name(n), version |-> extract_version(n)]]

\* find_jar_files: the jars in the order read_dir yields them, grouped by
\* inferred name; each group keeps that order (lines 464-483).
RECURSIVE GroupOf(_, _)
GroupOf(order, lib_name) ==
    IF order = <<>> THEN <<>>
    ELSE IF Inferred[Head(order).name].lib_name = lib_name
         THEN <<[version |-> Inferred[Head(order).name].version, path |-> Head(order)]>>
                  \o GroupOf(Tail(order), lib_name)
         ELSE GroupOf(Tail(order), lib_name)

find_jar_files(order) ==
    [lib_name \in { Inferred[order[i].name].lib_name : i \in 1..Len(order) } |->
        GroupOf(order, lib_name)]

\* An insertion that compares nothing.
InsertAtEnd(sorted, x) == Append(sorted, x)

\* slice::sort_by (stable): insertion after the last element not greater.
RECURSIVE InsertSorted(_, _)
InsertSorted(sorted, x) ==
    IF sorted = <<>> THEN <<x>>
    ELSE IF compare_versions(sorted[Len(sorted)].version, x.version) = "Greater"
         THEN Append(InsertSorted(SubSeq(sorted, 1, Len(sorted) - 1), x),
                     sorted[Len(sorted)])
         ELSE Append(sorted, x)

\* line 76 left out: the group stays in the order it was read.
KeepReadOrder(versions) == versions

RECURSIVE SortByVersion(_)
SortByVersion(versions) ==
    IF versions = <<>> THEN <<>>
    ELSE InsertSorted(SortByVersion(SubSeq(versions, 1, Len(versions) - 1)),
                      versions[Len(versions)])

\* line 63 without the allow-list.
IsAnyLibrary(lib_name) == TRUE

\* line 63
IsAsmLibrary(lib_name) == lib_name \in asm_libraries

\* lines 76-101: the paths remove_file is called on for one group.
RemovalTargets(versions) ==
    LET sorted == SortByVersion(versions)
        highest_version == sorted[Len(sorted)].version
    IN { sorted[i].path : i \in { j \in 1..(Len(sorted) - 1) :
                                    sorted[j].version # highest_version } }

\* lines 61-107: every group, in whatever order the HashMap yields them.
GroupTargets(library_versions, lib_name) ==
    IF IsAsmLibrary(lib_name) /\ Len(library_versions[lib_name]) > 1
    THEN RemovalTargets(library_versions[lib_name])
    ELSE {}

AllTargets(library_versions) ==
    UNION { GroupTargets(library_versions, n) : n \in DOMAIN library_versions }

(***************************************************************************)
(* mods.rs: fetch_mod_version_data, get_mod_download_urls                  *)
(***************************************************************************)
\* lines 5-16 (one base mod of the seven): its slug and its project id.
MODS == <<"modA">>
MODS_ID == <<"idA">>

\* Project ids of mods outside the base set.
OtherIds == {"idB", "idC"}

SeqToSet(q) == { q[i] : i \in 1..Len(q) }

\* What a dependency entry may name, and the identifiers the endpoint is
\* queried with.
DepTargets == SeqToSet(MODS_ID) \cup OtherIds
Queryable == SeqToSet(MODS) \cup OtherIds

DepTypes == {"required", "optional"}
Dependency == [project_id : DepTargets, dependency_type : DepTypes]

\* The endpoint's answer for one identifier: no usable release, or the first
\* release's dependency entries (its file url is determined by the name).
NoRelease == [release |-> FALSE, dependencies |-> {}]
Release(deps) == [release |-> TRUE, dependencies |-> deps]

MaxDeps == 2

Responses ==
    {NoRelease} \cup { Release(d) : d \in { x \in SUBSET Dependency : Cardinality(x) <= MaxDeps } }

\* A project is served under its slug and under its project id alike.
SlugOf(id) ==
    IF \E i \in 1..Len(MODS_ID) : MODS_ID[i] = id
    THEN MODS[CHOOSE i \in 1..Len(MODS_ID) : MODS_ID[i] = id]
    ELSE id

Response(graph, id) == graph[SlugOf(id)]

\* A first release is taken to exist whatever the endpoint answered.
HasReleaseAlways(resp) == TRUE

\* fetch_mod_version_data lines 37-41: the answer holds a first release with
\* a first file and its url (otherwise line 65, Ok(None)).
HasRelease(resp) == resp.release

\* line 49 without the test.
InBaseIdsNever(dep_id) == FALSE

\* line 49
InBaseIds(dep_id) == dep_id \in SeqToSet(MODS_ID)

\* line 47 without the test of the dependency type.
IsFollowedAlways(dep_type) == TRUE

\* line 47
IsFollowed(dep_type) == dep_type = "required"

\* fetch_mod_version_data lines 37-65: the dependency ids returned with the
\* download url (as a set: the order is that of the JSON array).
ReturnedDependencies(resp) ==
    { d.project_id : d \in { x \in resp.dependencies :
                               IsFollowed(x.dependency_type) /\ ~InBaseIds(x.project_id) } }

\* line 77 without the test.
AlreadyVisitedNever(mod_id, seen) == FALSE

\* line 77
AlreadyVisited(mod_id, seen) == mod_id \in seen

\* line 80 left out: the identifier is not recorded.
MarkVisitedForgotten(mod_id, seen) == seen

\* line 80
MarkVisited(mod_id, seen) == seen \cup {mod_id}

\* line 91
ShouldPush(dep_id, seen) == ~(dep_id \in seen)

\* Vec::pop: the last element.
Last(q) == q[Len(q)]
Front(q) == SubSeq(q, 1, Len(q) - 1)

\* The orders in which the elements of a set may be listed.
Orders(S) ==
    { o \in [1..Cardinality(S) -> S] : \A i, j \in 1..Cardinality(S) : i # j => o[i] # o[j] }

\* lines 90-94 for a dependency list given in order
RECURSIVE PushAll(_, _, _)
PushAll(q, deps, seen) ==
    IF deps = <<>> THEN q
    ELSE PushAll(IF ShouldPush(Head(deps), seen) THEN Append(q, Head(deps)) ELSE q,
                 Tail(deps), seen)

(***************************************************************************)
(* map.rs: download_map, install_map_from_path, install_map                *)
(***************************************************************************)
\* str::trim
IsWhitespace(c) == c \in {" ", "\n", "\r", "\t"}

RECURSIVE TrimStart(_)
TrimStart(s) == IF s # <<>> /\ IsWhitespace(Head(s)) THEN TrimStart(Tail(s)) ELSE s

RECURSIVE TrimEnd(_)
TrimEnd(s) ==
    IF s # <<>> /\ IsWhitespace(s[Len(s)]) THEN TrimEnd(SubSeq(s, 1, Len(s) - 1)) ELSE s

Trim(s) == TrimEnd(TrimStart(s))

\* What the cache file may hold: two releases of the map, a file cut short
\* by a failed write, an empty file; NoFile: there is no file.
NoFile == "NoFile"
Releases == {"release1", "release2"}
FileContents == Releases \cup {"partial", "empty"}

\* filesys.rs getsha256: the lower-case hex digest of the file's bytes.
Sha256(content) ==
    CASE content = "release1" -> <<"a", "1">>
      [] content = "release2" -> <<"b", "2">>
      [] content = "partial" -> <<"c", "3">>
      [] content = "empty" -> <<"e", "0">>

\* Texts the .sha256 endpoint may serve.
ExpectedTexts ==
    { <<"a", "1">>, <<"a", "1", "\n">>, <<"A", "1">>, <<"b", "2">> }

\* ZipArchive::new succeeds on the releases only.
IsZip(content) == content \in Releases

ArchiveOf(content) ==
    IF content = "release1"
    THEN << EntryName(<<"top">>, TRUE), EntryName(<<"top", "a">>, FALSE) >>
    ELSE << EntryName(<<"top">>, TRUE), EntryName(<<"top", "a">>, FALSE),
            EntryName(<<"top", "sub", "a">>, FALSE) >>

\* The map id, and .minecraft/saves.
MapId == "map1"
Saves == <<"/", "saves">>

\* Results: Ok(value), Err(kind), a panic, or no result yet.
NoResult == [kind |-> "none", what |-> ""]
Ok(v) == [kind |-> "ok", what |-> v]
Err(e) == [kind |-> "err", what |-> e]
Panic == [kind |-> "panic", what |-> ""]

\* A comparison that rejects every digest, and one that accepts every digest.
HashNeverMatches(local_hash, expected) == FALSE
HashAlwaysMatches(local_hash, expected) == TRUE

\* map.rs line 206 (and line 126 negated): the comparison of the digests.
HashMatches(local_hash, expected) == Trim(local_hash) = Trim(expected)

(***************************************************************************)
(* Specification SpecZip: one archive, get_root_folder_name and            *)
(* extract_zip each called once on it.                                     *)
(***************************************************************************)
\* Everything above extract_to exists (install_map_from_path ensures saves/).
DestAncestors == { SubSeq(Dest, 1, k) : k \in 1..(Len(Dest) - 1) }

InitialTrees ==
    { [dirs |-> DestAncestors, files |-> {}],
      [dirs |-> DestAncestors \cup {Dest}, files |-> {}],
      [dirs |-> DestAncestors \cup {Dest}, files |-> {Dest \o <<"a">>}],
      [dirs |-> DestAncestors \cup {Dest, Dest \o <<"a">>}, files |-> {}] }

ZipIdle ==
    /\ zip_archive = <<>>
    /\ zip_fail = 0
    /\ dirs = DestAncestors
    /\ files = {}
    /\ written = {}
    /\ out_paths = <<>>
    /\ strip_used = NoPrefix
    /\ zip_res = "none"
    /\ root_res = RootNone

VerIdle == ver_a = <<>> /\ ver_b = <<>> /\ cmp_res = "none"

LibIdle == lib_before = {} /\ lib_tree = {} /\ lib_failed = {} /\ dedup_res = "none"

ModIdle ==
    /\ mod_graph = <<>>
    /\ to_process = <<>>
    /\ visited = {}
    /\ download_urls = <<>>
    /\ fetched = <<>>
    /\ res_pc = "idle"

MapIdle ==
    /\ cache = NoFile
    /\ expected_hash = <<>>
    /\ dl_res = NoResult
    /\ map_res = NoResult
    /\ map_log = <<>>
    /\ map_pc = "idle"
    /\ map_calls = 0
    /\ launched = FALSE

NoOrderings == [ab |-> "none", ba |-> "none", bc |-> "none", ac |-> "none", aa |-> "none"]

OrdIdle == ver_c = <<>> /\ ord_res = NoOrderings

FindNotCalled == [kind |-> "not_called", maps |-> <<>>]

FindIdle == catalog = <<>> /\ query = <<>> /\ find_res = FindNotCalled

NoMarker == "NoMarker"

DmIdle ==
    /\ mods_dir = {}
    /\ saved_version = NoMarker
    /\ dm_version = ""
    /\ dm_todo = <<>>
    /\ dm_res = "none"
    /\ dm_pc = "idle"
    /\ mods_before = {}
    /\ installed = {}
    /\ launches = 0

NoMap == [id |-> <<>>, name |-> <<>>, tags |-> <<>>, map_type |-> "none"]

PlayIdle ==
    /\ play_cmd = "none"
    /\ play_pc = "idle"
    /\ selected_map = NoMap
    /\ run_map_fut = "none"

NoAccountsFile == [exists |-> FALSE, selected |-> "", accounts |-> <<>>]

AccIdle == acc_file = NoAccountsFile /\ acc_last = "none" /\ acc_ops = 0

InitZip ==
    /\ PlayIdle /\ AccIdle
    /\ VerIdle /\ LibIdle /\ ModIdle /\ MapIdle /\ OrdIdle /\ FindIdle /\ DmIdle
    /\ zip_archive \in Archives
    /\ zip_fail \in 0..Len(zip_archive)
    /\ \E t \in InitialTrees : dirs = t.dirs /\ files = t.files
    /\ written = {}
    /\ out_paths = <<>>
    /\ strip_used = NoPrefix
    /\ zip_res = "none"
    /\ root_res = RootNone

GetRootFolderNameCall ==
    /\ root_res = RootNone
    /\ root_res' = get_root_folder_name(zip_archive, ZipStem)
    /\ UNCHANGED <<zip_archive, zip_fail, dirs, files, written, out_paths,
                   strip_used, zip_res>>
    /\ UNCHANGED <<verVars, libVars, modVars, mapVars, ordVars, findVars, dmVars,
                   playVars, accVars>>

ExtractZipCall ==
    /\ zip_res = "none"
    /\ LET st == extract_zip(zip_archive, Dest, zip_fail, dirs, files)
       IN /\ dirs' = st.dirs
          /\ files' = st.files
          /\ written' = st.written
          /\ out_paths' = st.outs
          /\ strip_used' = st.strip
          /\ zip_res' = st.res
    /\ UNCHANGED <<zip_archive, zip_fail, root_res>>
    /\ UNCHANGED <<verVars, libVars, modVars, mapVars, ordVars, findVars, dmVars,
                   playVars, accVars>>

NextZip == GetRootFolderNameCall \/ ExtractZipCall

SpecZip == InitZip /\ [][NextZip]_vars

\* C1: every path extract_zip creates or writes lies in the destination
\* directory, also for entry names with ".." segments and absolute names.
C1_NoEscape == \A p \in written : IsDescendant(p, Dest)

\* C8: extract_zip strips the first component from every entry's output path
\* exactly when the archive's entries have one single distinct first
\* component; otherwise every output path is the destination joined with the
\* entry path unchanged.
C8_FirstComponents ==
    { zip_archive[i].comps[1] :
        i \in { j \in 1..Len(zip_archive) : zip_archive[j].comps # <<>> } }

C8_StripRule ==
    \A i \in 1..Len(out_paths) :
        LET e == zip_archive[i].comps
        IN IF Cardinality(C8_FirstComponents) = 1
           THEN out_paths[i] = (IF e = <<>> THEN Dest ELSE Dest \o Tail(e))
           ELSE out_paths[i] = (IF e # <<>> /\ e[1] = RootDir THEN e ELSE Dest \o e)

C8_Witness ==
    /\ zip_res = "ok"
    /\ Len(out_paths) = 2
    /\ strip_used # NoPrefix
    /\ zip_archive[1] # zip_archive[2]

\* C9: get_root_folder_name returns the shared top-level component exactly
\* when extract_zip strips it, and the archive's base name exactly when
\* extract_zip strips nothing, for every archive.
C9_SameDecision ==
    (zip_res # "none" /\ root_res # RootNone) =>
        /\ root_res.kind = "name"
        /\ strip_used # NoPrefix => root_res.name = strip_used[1]
        /\ strip_used = NoPrefix => root_res.name = ZipStem

(***************************************************************************)
(* Specification SpecVer: compare_versions called on two version strings.  *)
(***************************************************************************)
SegTokens == { <<"0">>, <<"2">>, <<"1", "0">>, <<"x">> }
MaxSegs == 3
Ver_1_2_0 == <<"1", ".", "2", ".", "0">>
Ver_1_10_0 == <<"1", ".", "1", "0", ".", "0">>

Ver_21 == <<"2", "1">>
Ver_21_0_0 == <<"2", "1", ".", "0", ".", "0">>
Ver_1_x_5 == <<"1", ".", "x", ".", "5">>
Ver_1_0_5 == <<"1", ".", "0", ".", "5">>

Versions ==
    { JoinStr(segs, ".") : segs \in UNION { [1..n -> SegTokens] : n \in 0..MaxSegs } }
        \cup { Ver_1_2_0, Ver_1_10_0, Ver_21, Ver_21_0_0, Ver_1_x_5, Ver_1_0_5 }

InitVer ==
    /\ PlayIdle /\ AccIdle
    /\ ZipIdle /\ LibIdle /\ ModIdle /\ MapIdle /\ OrdIdle /\ FindIdle /\ DmIdle
    /\ ver_a \in Versions
    /\ ver_b \in Versions
    /\ cmp_res = "none"

CompareVersionsCall ==
    /\ cmp_res = "none"
    /\ cmp_res' = compare_versions(ver_a, ver_b)
    /\ UNCHANGED <<ver_a, ver_b, zipVars, libVars, modVars, mapVars, ordVars, findVars, dmVars,
                   playVars, accVars>>

NextVer == CompareVersionsCall

SpecVer == InitVer /\ [][NextVer]_vars

\* C10: compare_versions compares corresponding dot-segments as integers: on
\* versions whose segments are all numeric the first position where the
\* integer values differ decides, and compare("1.2.0", "1.10.0") is Less.
C10_AllNumeric(v) == \A i \in 1..Len(Split(v, ".")) : ParseU32(Split(v, ".")[i]).ok

C10_Value(v, i) == IF i <= Len(Split(v, ".")) THEN DecimalValue(Split(v, ".")[i]) ELSE 0

C10_NumericOrder ==
    (cmp_res # "none" /\ C10_AllNumeric(ver_a) /\ C10_AllNumeric(ver_b)) =>
        LET n == Max(Len(Split(ver_a, ".")), Len(Split(ver_b, ".")))
            differ == { i \in 1..n : C10_Value(ver_a, i) # C10_Value(ver_b, i) }
        IN /\ differ = {} => cmp_res = "Equal"
           /\ differ # {} =>
                LET k == CHOOSE i \in differ : \A j \in differ : i <= j
                IN cmp_res = IF C10_Value(ver_a, k) < C10_Value(ver_b, k)
                             THEN "Less" ELSE "Greater"
           /\ (ver_a = Ver_1_2_0 /\ ver_b = Ver_1_10_0) => cmp_res = "Less"

C10_Witness == ver_a = Ver_1_2_0 /\ ver_b = Ver_1_10_0 /\ cmp_res = "Less"

\* C11: a missing trailing segment counts as 0: for every all-numeric version
\* v, compare(v, v + ".0") is Equal, and compare("21", "21.0.0") is Equal.
C11_TrailingZero ==
    /\ (cmp_res # "none" /\ C10_AllNumeric(ver_a) /\ ver_b = ver_a \o <<".", "0">>)
            => cmp_res = "Equal"
    /\ (cmp_res # "none" /\ ver_a = Ver_21 /\ ver_b = Ver_21_0_0) => cmp_res = "Equal"

C11_Witness == ver_a = Ver_21 /\ ver_b = Ver_21_0_0 /\ cmp_res = "Equal"

\* C12: a dot-segment that does not parse counts as 0 at its own position:
\* replacing every unparsable segment by "0" in either argument leaves the
\* result of compare_versions unchanged (compare("1.x.5", "1.0.5") is Equal).
RECURSIVE C12_ZeroedSegs(_)
C12_ZeroedSegs(segs) ==
    IF segs = <<>> THEN <<>>
    ELSE <<IF ParseU32(Head(segs)).ok THEN Head(segs) ELSE <<"0">>>>
            \o C12_ZeroedSegs(Tail(segs))

C12_Zeroed(v) == JoinStr(C12_ZeroedSegs(Split(v, ".")), ".")

C12_UnparsableIsZero ==
    cmp_res # "none" =>
        /\ cmp_res = compare_versions(C12_Zeroed(ver_a), ver_b)
        /\ cmp_res = compare_versions(ver_a, C12_Zeroed(ver_b))
        /\ (ver_a = Ver_1_x_5 /\ ver_b = Ver_1_0_5) => cmp_res = "Equal"

(***************************************************************************)
(* Specification SpecOrd: compare_versions as the comparator of sort_by in *)
(* deduplicate_libraries, called on the pairs among three version strings. *)
(***************************************************************************)
OrdTokens == { <<"0">>, <<"2">>, <<"x">> }
MaxOrdSegs == 2

OrdVersions ==
    { JoinStr(segs, ".") : segs \in UNION { [1..n -> OrdTokens] : n \in 0..MaxOrdSegs } }

InitOrd ==
    /\ PlayIdle /\ AccIdle
    /\ ZipIdle /\ LibIdle /\ ModIdle /\ MapIdle /\ FindIdle /\ DmIdle
    /\ ver_a \in OrdVersions
    /\ ver_b \in OrdVersions
    /\ ver_c \in OrdVersions
    /\ cmp_res = "none"
    /\ ord_res = NoOrderings

\* sort_by(|a, b| compare_versions(&a.1, &b.1)): the comparator is called on
\* pairs of the versions of one group.
SortCompares ==
    /\ ord_res = NoOrderings
    /\ ord_res' = [ab |-> compare_versions(ver_a, ver_b),
                   ba |-> compare_versions(ver_b, ver_a),
                   bc |-> compare_versions(ver_b, ver_c),
                   ac |-> compare_versions(ver_a, ver_c),
                   aa |-> compare_versions(ver_a, ver_a)]
    /\ UNCHANGED <<ver_a, ver_b, ver_c, cmp_res>>
    /\ UNCHANGED <<zipVars, libVars, modVars, mapVars, findVars, dmVars,
                   playVars, accVars>>

NextOrd == SortCompares

SpecOrd == InitOrd /\ [][NextOrd]_vars

\* C13: compare_versions is a total preorder on version strings:
\* compare(a, b) is the reverse of compare(b, a), compare(a, a) is Equal, and
\* compare(a, b) = Less with compare(b, c) = Less implies compare(a, c) = Less.
C13_Reverse(o) == IF o = "Less" THEN "Greater" ELSE IF o = "Greater" THEN "Less" ELSE o

C13_TotalPreorder ==
    ord_res # NoOrderings =>
        /\ ord_res.ab \in {"Less", "Equal", "Greater"}
        /\ ord_res.ba = C13_Reverse(ord_res.ab)
        /\ ord_res.aa = "Equal"
        /\ (ord_res.ab = "Less" /\ ord_res.bc = "Less") => ord_res.ac = "Less"

C13_Witness ==
    /\ ord_res.ab = "Less" /\ ord_res.bc = "Less" /\ ord_res.ac = "Less"
    /\ ord_res.ba = "Greater"
    /\ Contains(ver_b, <<"x">>)

\* The first failing removal ends the pass: nothing else is removed.
RemovedUntilFailure(targets, failed) == IF failed = {} THEN targets ELSE {}

\* lines 94-101: a failing remove_file is reported and the loops go on; the
\* files removed are the targets whose removal did not fail.
RemovedDespiteFailures(targets, failed) == targets \ failed

(***************************************************************************)
(* Specification SpecDedup: one pass of deduplicate_libraries over a       *)
(* libraries directory.                                                    *)
(***************************************************************************)
MaxJars == 4

\* The orders in which read_dir may yield the jars of a tree.
ReadOrders(tree) ==
    { o \in [1..Cardinality(tree) -> tree] :
        \A i, j \in 1..Cardinality(tree) : i # j => o[i] # o[j] }

InitDedup ==
    /\ PlayIdle /\ AccIdle
    /\ ZipIdle /\ VerIdle /\ ModIdle /\ MapIdle /\ OrdIdle /\ FindIdle /\ DmIdle
    /\ lib_tree \in { t \in SUBSET JarFiles : Cardinality(t) <= MaxJars }
    /\ lib_before = lib_tree
    /\ lib_failed = {}
    /\ dedup_res = "none"

\* deduplicate_libraries returning Ok: some of the removals may fail.
DeduplicateLibraries ==
    /\ dedup_res = "none"
    /\ \E order \in ReadOrders(lib_tree) :
         LET targets == AllTargets(find_jar_files(order))
         IN \E failed \in SUBSET targets :
              /\ lib_tree' = lib_tree \ RemovedDespiteFailures(targets, failed)
              /\ lib_failed' = failed
    /\ dedup_res' = "ok"
    /\ UNCHANGED <<lib_before, zipVars, verVars, modVars, mapVars, ordVars, findVars, dmVars,
                   playVars, accVars>>

\* find_jar_files fails (read_dir error, line 58): nothing is removed.
DeduplicateScanFails ==
    /\ dedup_res = "none"
    /\ dedup_res' = "err"
    /\ UNCHANGED <<lib_before, lib_tree, lib_failed, zipVars, verVars, modVars, mapVars,
                   ordVars, findVars, dmVars,
                   playVars, accVars>>

NextDedup == DeduplicateLibraries \/ DeduplicateScanFails

SpecDedup == InitDedup /\ [][NextDedup]_vars

JarsNamed(tree, lib_name) == { f \in tree : extract_library_name(f.name) = lib_name }

IsMaxVersion(f, group) ==
    \A g \in group :
        compare_versions(extract_version(g.name), extract_version(f.name)) # "Greater"

\* C6 (as claimed): after a pass in which every removal succeeded, each
\* allow-listed name that had more than one jar has exactly one jar left, of
\* maximal version.
C6_ExactlyOneLeft ==
    (dedup_res = "ok" /\ lib_failed = {}) =>
        \A n \in asm_libraries :
            Cardinality(JarsNamed(lib_before, n)) > 1 =>
                /\ Cardinality(JarsNamed(lib_tree, n)) = 1
                /\ \A f \in JarsNamed(lib_tree, n) : IsMaxVersion(f, JarsNamed(lib_before, n))

\* C6 (amended): after a pass in which every removal succeeded, each
\* allow-listed name that had more than one jar keeps at least one jar, every
\* jar kept has a maximal version of the group, all jars kept carry the same
\* version string, and exactly one is kept when the version strings of the
\* group are pairwise distinct.
C6_OnlyHighestVersionLeft ==
    (dedup_res = "ok" /\ lib_failed = {}) =>
        \A n \in asm_libraries :
            LET before == JarsNamed(lib_before, n)
                after == JarsNamed(lib_tree, n)
            IN Cardinality(before) > 1 =>
                /\ after # {}
                /\ after \subseteq before
                /\ \A f \in after : IsMaxVersion(f, before)
                /\ \A f, g \in after : extract_version(f.name) = extract_version(g.name)
                /\ (\A f, g \in before :
                        f # g => extract_version(f.name) # extract_version(g.name))
                      => Cardinality(after) = 1

C6_Witness ==
    /\ dedup_res = "ok" /\ lib_failed = {}
    /\ JarFile("d1", Jar_asm_9_1) \in lib_before \ lib_tree
    /\ JarFile("d1", Jar_asm_9_6) \in lib_tree
    /\ JarFile("d2", Jar_asm_9_6) \in lib_tree

\* C7: no jar whose inferred logical name is outside the allow-list is removed
\* by the pass, however many versions of that name exist.
C7_OthersUntouched ==
    \A f \in lib_before :
        ~(extract_library_name(f.name) \in asm_libraries) => f \in lib_tree

C7_Witness ==
    /\ dedup_res = "ok"
    /\ JarFile("d1", Jar_guava_30_0) \in lib_tree
    /\ JarFile("d1", Jar_guava_31_0) \in lib_tree
    /\ lib_tree # lib_before

\* C23: a failure to remove one duplicate file does not end the pass: every
\* other removable lower-version file, in the same group and in every other
\* allow-listed group, is still removed and the pass returns success.
C23_LowerVersion(f) ==
    /\ extract_library_name(f.name) \in asm_libraries
    /\ \E g \in JarsNamed(lib_before, extract_library_name(f.name)) :
          compare_versions(extract_version(f.name), extract_version(g.name)) = "Less"

C23_FailureDoesNotEndPass ==
    /\ lib_failed # {} => dedup_res = "ok"
    /\ dedup_res = "ok" =>
          \A f \in lib_before : (C23_LowerVersion(f) /\ f \notin lib_failed) => f \notin lib_tree

C23_Witness ==
    /\ dedup_res = "ok"
    /\ lib_failed = {JarFile("d1", Jar_asm_9_1)}
    /\ JarFile("d1", Jar_asm_9_1) \in lib_tree
    /\ JarFile("d1", Jar_asm_9_6) \in lib_tree
    /\ JarFile("d1", Jar_asm_tree_9_1) \in lib_before \ lib_tree
    /\ JarFile("d1", Jar_asm_tree_9_6) \in lib_tree

\* C28: deduplicate_libraries never empties a group: for every allow-listed
\* name that had at least one jar before the pass, a jar of that name with
\* the maximal version remains, whatever the versions and however the
\* removals succeed or fail.
C28_GroupKeepsMaximum ==
    \A n \in asm_libraries :
        JarsNamed(lib_before, n) # {} =>
            \E f \in JarsNamed(lib_tree, n) : IsMaxVersion(f, JarsNamed(lib_before, n))

C28_Witness ==
    /\ dedup_res = "ok"
    /\ lib_failed # {}
    /\ JarFile("d1", Jar_asm_9_6_0) \in lib_tree
    /\ JarFile("d1", Jar_asm_9_6) \in lib_before \ lib_tree
    /\ JarFile("d1", Jar_asm_9_1) \in lib_before

(***************************************************************************)
(* Specification SpecMods: one call of get_mod_download_urls against a     *)
(* remote dependency graph.                                                *)
(***************************************************************************)
InitMods ==
    /\ PlayIdle /\ AccIdle
    /\ ZipIdle /\ VerIdle /\ LibIdle /\ MapIdle /\ OrdIdle /\ FindIdle /\ DmIdle
    /\ mod_graph \in [Queryable -> Responses]
    /\ to_process = <<>>
    /\ visited = {}
    /\ download_urls = <<>>
    /\ fetched = <<>>
    /\ res_pc = "idle"

\* lines 71-74
ResolveStart ==
    /\ res_pc = "idle"
    /\ to_process' = MODS
    /\ visited' = {}
    /\ download_urls' = <<>>
    /\ res_pc' = "run"
    /\ UNCHANGED <<mod_graph, fetched, zipVars, verVars, libVars, mapVars,
                   ordVars, findVars, dmVars,
                   playVars, accVars>>

\* lines 76-79: the popped identifier was visited before.
SkipVisited ==
    /\ res_pc = "run" /\ to_process # <<>>
    /\ AlreadyVisited(Last(to_process), visited)
    /\ to_process' = Front(to_process)
    /\ UNCHANGED <<mod_graph, visited, download_urls, fetched, res_pc>>
    /\ UNCHANGED <<zipVars, verVars, libVars, mapVars, ordVars, findVars, dmVars,
                   playVars, accVars>>

\* lines 80-84: the request or the parsing of its body fails.
FetchFails ==
    /\ res_pc = "run" /\ to_process # <<>>
    /\ ~AlreadyVisited(Last(to_process), visited)
    /\ to_process' = Front(to_process)
    /\ visited' = MarkVisited(Last(to_process), visited)
    /\ fetched' = Append(fetched, Last(to_process))
    /\ res_pc' = "err"
    /\ UNCHANGED <<mod_graph, download_urls, zipVars, verVars, libVars, mapVars,
                   ordVars, findVars, dmVars,
                   playVars, accVars>>

\* lines 80-95: the endpoint answers; a node without release is dropped, one
\* with a release is recorded and its dependencies are pushed.
ResolveNode ==
    /\ res_pc = "run" /\ to_process # <<>>
    /\ LET mod_id == Last(to_process)
           resp == Response(mod_graph, mod_id)
           seen == MarkVisited(mod_id, visited)
       IN /\ ~AlreadyVisited(mod_id, visited)
          /\ visited' = seen
          /\ fetched' = Append(fetched, mod_id)
          /\ IF HasRelease(resp)
             THEN /\ download_urls' = Append(download_urls, mod_id)
                  /\ \E deps \in Orders(ReturnedDependencies(resp)) :
                        to_process' = PushAll(Front(to_process), deps, seen)
             ELSE /\ download_urls' = download_urls
                  /\ to_process' = Front(to_process)
    /\ UNCHANGED <<mod_graph, res_pc, zipVars, verVars, libVars, mapVars,
                   ordVars, findVars, dmVars,
                   playVars, accVars>>

\* lines 76 and 98: the queue is empty, the loop ends.
ResolveReturn ==
    /\ res_pc = "run" /\ to_process = <<>>
    /\ res_pc' = "ok"
    /\ UNCHANGED <<mod_graph, to_process, visited, download_urls, fetched>>
    /\ UNCHANGED <<zipVars, verVars, libVars, mapVars, ordVars, findVars, dmVars,
                   playVars, accVars>>

NextMods == ResolveStart \/ SkipVisited \/ FetchFails \/ ResolveNode \/ ResolveReturn

SpecMods == InitMods /\ [][NextMods]_vars

\* Every identifier the queue can ever hold.
C4_AllIds == SeqToSet(MODS) \cup DepTargets

\* A natural number that every iteration of the loop makes smaller.
C4_Measure ==
    Cardinality(C4_AllIds \ visited) * (Cardinality(DepTargets) + 1) + Len(to_process)

\* The cycle of the example: A requires B and B requires A, nothing else.
C4_CycleGraph ==
    /\ mod_graph["modA"] = Release({[project_id |-> "idB", dependency_type |-> "required"]})
    /\ mod_graph["idB"] = Release({[project_id |-> "idA", dependency_type |-> "required"]})

\* C4: get_mod_download_urls terminates on every finite dependency graph,
\* cycles and shared dependencies included: each iteration of the loop
\* strictly decreases a natural number, the loop is never stuck, it returns Ok
\* only with an empty queue; for A requiring B and B requiring A the output
\* is A and B, once each.
C4_Terminates ==
    /\ [][(res_pc = "run" /\ res_pc' = "run") => C4_Measure' < C4_Measure]_vars
    /\ [](res_pc = "run" => ENABLED NextMods)
    /\ [](res_pc = "ok" => to_process = <<>>)
    /\ []((res_pc = "ok" /\ C4_CycleGraph) => download_urls = <<"modA", "idB">>)

C4_Witness ==
    /\ res_pc = "ok" /\ C4_CycleGraph
    /\ download_urls = <<"modA", "idB">>

\* The identifiers reachable from the base set along required edges out of
\* nodes that have a release, edges to base project ids left out.
C5_Edges(n) ==
    IF mod_graph[n].release
    THEN { d.project_id : d \in { x \in mod_graph[n].dependencies :
                                    /\ x.dependency_type = "required"
                                    /\ x.project_id \notin SeqToSet(MODS_ID) } }
    ELSE {}

RECURSIVE C5_Closure(_, _)
C5_Closure(R, k) ==
    IF k = 0 THEN R ELSE C5_Closure(R \cup UNION { C5_Edges(n) : n \in R }, k - 1)

C5_Reachable == C5_Closure(SeqToSet(MODS), Cardinality(Queryable))

\* C5: whatever the order in which queued identifiers are popped, the output
\* names exactly the reachable identifiers that have a release.
C5_OutputIsReachable ==
    res_pc = "ok" =>
        SeqToSet(download_urls) = { n \in C5_Reachable : mod_graph[n].release }

C5_Witness ==
    /\ res_pc = "ok"
    /\ download_urls = <<"modA", "idB", "idC">>
    /\ \E d \in mod_graph["idC"].dependencies : d.dependency_type = "optional"
    /\ \E d \in mod_graph["idB"].dependencies : d.project_id = "idA"

\* C21: when the endpoint returns no matching release for an identifier,
\* get_mod_download_urls records no descriptor and no dependencies for it,
\* raises no error, and goes on with every remaining queued identifier.
C21_NoReleasePopped ==
    /\ res_pc = "run" /\ to_process # <<>>
    /\ Last(to_process) \notin visited
    /\ ~mod_graph[SlugOf(Last(to_process))].release

C21_NoReleaseDropped ==
    /\ [][(C21_NoReleasePopped /\ fetched' # fetched /\ res_pc' # "err") =>
            /\ download_urls' = download_urls
            /\ to_process' = Front(to_process)
            /\ res_pc' = "run"]_vars
    /\ [](C21_NoReleasePopped => ENABLED ResolveNode)
    /\ [](res_pc = "ok" =>
            /\ to_process = <<>>
            /\ \A n \in SeqToSet(download_urls) : mod_graph[SlugOf(n)].release)

C21_Witness ==
    /\ res_pc = "ok"
    /\ fetched = <<"modA", "idC", "idB">>
    /\ download_urls = <<"modA", "idB">>
    /\ ~mod_graph["idC"].release

\* C22: no identifier of the base set is ever pushed onto the work queue as
\* a dependency, even when the remote graph lists it as a required
\* dependency of another mod: base-set entries are in the queue only at the
\* places the initial seeding gave them.
C22_BaseOnlySeeded ==
    \A i \in 1..Len(to_process) :
        /\ to_process[i] \notin SeqToSet(MODS_ID)
        /\ to_process[i] \in SeqToSet(MODS) => (i <= Len(MODS) /\ to_process[i] = MODS[i])

C22_Witness ==
    /\ res_pc = "ok"
    /\ fetched = <<"modA", "idB">>
    /\ download_urls = <<"modA", "idB">>
    /\ [project_id |-> "idA", dependency_type |-> "required"] \in mod_graph["idB"].dependencies

\* C27: in one run of get_mod_download_urls each identifier is queried at
\* the endpoint at most once and appears at most once in the output list,
\* even when it was pushed onto the queue several times before being popped.
C27_NoRepeats(q) == \A i, j \in 1..Len(q) : q[i] = q[j] => i = j

C27_AtMostOnce == C27_NoRepeats(fetched) /\ C27_NoRepeats(download_urls)

C27_Witness ==
    /\ res_pc = "ok"
    /\ mod_graph["modA"].dependencies =
          { [project_id |-> t, dependency_type |-> "required"] : t \in OtherIds }
    /\ [project_id |-> "idC", dependency_type |-> "required"] \in mod_graph["idB"].dependencies
    /\ download_urls = <<"modA", "idB", "idC">>
    /\ Len(fetched) = 3

(***************************************************************************)
(* Specification SpecMap: install_map called up to MaxCalls times for one  *)
(* map id; the cache file and the saves directory persist between calls.   *)
(***************************************************************************)
MaxCalls == 2

Event(e, c) == [ev |-> e, content |-> c]

InitMap ==
    /\ PlayIdle /\ AccIdle
    /\ ZipIdle /\ VerIdle /\ LibIdle /\ ModIdle /\ OrdIdle /\ FindIdle /\ DmIdle
    /\ cache = NoFile
    /\ expected_hash = <<>>
    /\ dl_res = NoResult
    /\ map_res = NoResult
    /\ map_log = <<>>
    /\ map_pc = "idle"
    /\ map_calls = 0
    /\ launched = FALSE

zipFsVars == <<zip_archive, zip_fail, dirs, files, written, out_paths, strip_used,
               zip_res, root_res>>

\* install_map lines 195-200: the request for the expected digest fails.
ExpectedHashFails ==
    /\ map_pc = "idle" /\ map_calls < MaxCalls
    /\ map_calls' = map_calls + 1
    /\ map_log' = <<Event("get_sha256", NoFile)>>
    /\ expected_hash' = <<>>
    /\ dl_res' = NoResult
    /\ map_res' = Err("Network")
    /\ map_pc' = "done"
    /\ UNCHANGED <<cache, zipFsVars, verVars, libVars, modVars, launched,
                   ordVars, findVars, dmVars,
                   playVars, accVars>>

\* lines 195-202 and 213: the expected digest arrives; the cache file is
\* looked for.
ExpectedHashArrives ==
    /\ map_pc = "idle" /\ map_calls < MaxCalls
    /\ map_calls' = map_calls + 1
    /\ map_log' = <<Event("get_sha256", NoFile)>>
    /\ \E text \in ExpectedTexts : expected_hash' = text
    /\ dl_res' = NoResult
    /\ map_res' = NoResult
    /\ map_pc' = IF cache # NoFile THEN "verify" ELSE "download"
    /\ UNCHANGED <<cache, zipFsVars, verVars, libVars, modVars, launched,
                   ordVars, findVars, dmVars,
                   playVars, accVars>>

\* line 204 with filesys.rs line 17: the cache file cannot be read, the
\* unwrap panics.
VerifyPanics ==
    /\ map_pc = "verify"
    /\ map_res' = Panic
    /\ map_pc' = "done"
    /\ UNCHANGED <<cache, expected_hash, dl_res, map_log, map_calls>>
    /\ UNCHANGED <<zipFsVars, verVars, libVars, modVars, launched, ordVars, findVars, dmVars,
                   playVars, accVars>>

\* lines 204-207: the cached file has the expected digest.
VerifyHit ==
    /\ map_pc = "verify"
    /\ HashMatches(Sha256(cache), expected_hash)
    /\ map_log' = Append(map_log, Event("hash_cache", cache))
    /\ map_pc' = "install"
    /\ UNCHANGED <<cache, expected_hash, dl_res, map_res, map_calls>>
    /\ UNCHANGED <<zipFsVars, verVars, libVars, modVars, launched, ordVars, findVars, dmVars,
                   playVars, accVars>>

\* lines 208-210: the digests differ, the stale file is removed.
VerifyStale ==
    /\ map_pc = "verify"
    /\ ~HashMatches(Sha256(cache), expected_hash)
    /\ map_log' = map_log \o <<Event("hash_cache", cache), Event("remove_cache", cache)>>
    /\ cache' = NoFile
    /\ map_pc' = "download"
    /\ UNCHANGED <<expected_hash, dl_res, map_res, map_calls>>
    /\ UNCHANGED <<zipFsVars, verVars, libVars, modVars, launched, ordVars, findVars, dmVars,
                   playVars, accVars>>

\* line 210: remove_file fails, install_map returns the error.
VerifyStaleRemoveFails ==
    /\ map_pc = "verify"
    /\ ~HashMatches(Sha256(cache), expected_hash)
    /\ map_log' = Append(map_log, Event("hash_cache", cache))
    /\ map_res' = Err("Io")
    /\ map_pc' = "done"
    /\ UNCHANGED <<cache, expected_hash, dl_res, map_calls>>
    /\ UNCHANGED <<zipFsVars, verVars, libVars, modVars, launched, ordVars, findVars, dmVars,
                   playVars, accVars>>

\* download_map lines 115-119: the request fails; install_map drops the
\* error (lines 211, 214) and goes on.
DownloadRequestFails ==
    /\ map_pc = "download"
    /\ map_log' = Append(map_log, Event("get_zip", NoFile))
    /\ dl_res' = Err("Network")
    /\ map_pc' = "install"
    /\ UNCHANGED <<cache, expected_hash, map_res, map_calls>>
    /\ UNCHANGED <<zipFsVars, verVars, libVars, modVars, launched, ordVars, findVars, dmVars,
                   playVars, accVars>>

\* line 121: File::create fails.
DownloadCreateFails ==
    /\ map_pc = "download"
    /\ map_log' = Append(map_log, Event("get_zip", NoFile))
    /\ dl_res' = Err("Io")
    /\ map_pc' = "install"
    /\ UNCHANGED <<cache, expected_hash, map_res, map_calls>>
    /\ UNCHANGED <<zipFsVars, verVars, libVars, modVars, launched, ordVars, findVars, dmVars,
                   playVars, accVars>>

\* lines 121-123: the file is created, then the body cannot be read (the
\* file stays empty) or the copy stops half-way (the file stays cut short).
DownloadWriteFails ==
    /\ map_pc = "download"
    /\ \E left \in {"empty", "partial"} :
         /\ cache' = left
         /\ map_log' = map_log \o <<Event("get_zip", NoFile), Event("write_cache", left)>>
         /\ dl_res' = IF left = "empty" THEN Err("Network") ELSE Err("Io")
    /\ map_pc' = "install"
    /\ UNCHANGED <<expected_hash, map_res, map_calls>>
    /\ UNCHANGED <<zipFsVars, verVars, libVars, modVars, launched, ordVars, findVars, dmVars,
                   playVars, accVars>>

\* line 125 with filesys.rs line 17: the file just written cannot be read,
\* the unwrap panics.
DownloadHashPanics ==
    /\ map_pc = "download"
    /\ \E body \in Releases :
         /\ cache' = body
         /\ map_log' = map_log \o <<Event("get_zip", NoFile), Event("write_cache", body)>>
    /\ map_res' = Panic
    /\ map_pc' = "done"
    /\ UNCHANGED <<expected_hash, dl_res, map_calls>>
    /\ UNCHANGED <<zipFsVars, verVars, libVars, modVars, launched, ordVars, findVars, dmVars,
                   playVars, accVars>>

\* lines 115-135 with a matching digest: Ok(path).
DownloadVerified ==
    /\ map_pc = "download"
    /\ \E body \in Releases :
         /\ HashMatches(Sha256(body), expected_hash)
         /\ cache' = body
         /\ map_log' = map_log \o <<Event("get_zip", NoFile), Event("write_cache", body),
                                    Event("hash_download", body)>>
    /\ dl_res' = Ok(MapId)
    /\ map_pc' = "install"
    /\ UNCHANGED <<expected_hash, map_res, map_calls>>
    /\ UNCHANGED <<zipFsVars, verVars, libVars, modVars, launched, ordVars, findVars, dmVars,
                   playVars, accVars>>

\* lines 125-132: the digest differs, the file is removed, the integrity
\* error is returned.
DownloadMismatch ==
    /\ map_pc = "download"
    /\ \E body \in Releases :
         /\ ~HashMatches(Sha256(body), expected_hash)
         /\ map_log' = map_log \o <<Event("get_zip", NoFile), Event("write_cache", body),
                                    Event("hash_download", body),
                                    Event("remove_download", body)>>
    /\ cache' = NoFile
    /\ dl_res' = Err("Integrity")
    /\ map_pc' = "install"
    /\ UNCHANGED <<expected_hash, map_res, map_calls>>
    /\ UNCHANGED <<zipFsVars, verVars, libVars, modVars, launched, ordVars, findVars, dmVars,
                   playVars, accVars>>

\* line 127: the digest differs and remove_file fails: the file stays.
DownloadMismatchRemoveFails ==
    /\ map_pc = "download"
    /\ \E body \in Releases :
         /\ ~HashMatches(Sha256(body), expected_hash)
         /\ cache' = body
         /\ map_log' = map_log \o <<Event("get_zip", NoFile), Event("write_cache", body),
                                    Event("hash_download", body)>>
    /\ dl_res' = Err("Io")
    /\ map_pc' = "install"
    /\ UNCHANGED <<expected_hash, map_res, map_calls>>
    /\ UNCHANGED <<zipFsVars, verVars, libVars, modVars, launched, ordVars, findVars, dmVars,
                   playVars, accVars>>

\* install_map_from_path line 151: the archive cannot be opened or read.
InstallOpenFails ==
    /\ map_pc = "install"
    /\ cache = NoFile \/ ~IsZip(cache)
    /\ map_log' = Append(map_log, Event("open_archive", cache))
    /\ map_res' = IF cache = NoFile THEN Err("NotFound") ELSE Err("InvalidArchive")
    /\ map_pc' = "done"
    /\ UNCHANGED <<cache, expected_hash, dl_res, map_calls>>
    /\ UNCHANGED <<zipFsVars, verVars, libVars, modVars, launched, ordVars, findVars, dmVars,
                   playVars, accVars>>

ExtractPath(root) == Saves \o <<root.name>>
\* A test of existence that never finds the path.
PathExistsNever(p) == FALSE

\* line 160: extract_path.exists()
PathExists(p) == Canon(p) \in dirs \cup files

\* lines 151-171: saves/<root name> exists, nothing is extracted.
InstallUsesExisting ==
    /\ map_pc = "install"
    /\ cache # NoFile /\ IsZip(cache)
    /\ LET root == get_root_folder_name(ArchiveOf(cache), MapId)
       IN /\ root.kind = "name"
          /\ PathExists(ExtractPath(root))
          /\ root_res' = root
          /\ map_res' = Ok(root.name)
    /\ map_log' = Append(map_log, Event("open_archive", cache))
    /\ map_pc' = "done"
    /\ UNCHANGED <<cache, expected_hash, dl_res, map_calls>>
    /\ UNCHANGED <<zip_archive, zip_fail, dirs, files, written, out_paths,
                   strip_used, zip_res>>
    /\ UNCHANGED <<verVars, libVars, modVars, launched, ordVars, findVars, dmVars,
                   playVars, accVars>>

\* lines 151-176: the archive is extracted to saves/<root name>.
InstallExtracts ==
    /\ map_pc = "install"
    /\ cache # NoFile /\ IsZip(cache)
    /\ LET root == get_root_folder_name(ArchiveOf(cache), MapId)
       IN /\ root.kind = "name"
          /\ ~PathExists(ExtractPath(root))
          /\ root_res' = root
          /\ zip_archive' = ArchiveOf(cache)
          /\ \E failAt \in 0..Len(ArchiveOf(cache)) :
               LET st == extract_zip(ArchiveOf(cache), ExtractPath(root), failAt,
                                     dirs, files)
               IN /\ zip_fail' = failAt
                  /\ dirs' = st.dirs
                  /\ files' = st.files
                  /\ written' = st.written
                  /\ out_paths' = st.outs
                  /\ strip_used' = st.strip
                  /\ zip_res' = st.res
                  /\ map_res' = IF st.res = "ok" THEN Ok(root.name) ELSE Err("Extract")
    /\ map_log' = map_log \o <<Event("open_archive", cache), Event("extract", cache)>>
    /\ map_pc' = "done"
    /\ UNCHANGED <<cache, expected_hash, dl_res, map_calls>>
    /\ UNCHANGED <<verVars, libVars, modVars, launched, ordVars, findVars, dmVars,
                   playVars, accVars>>

\* mc.rs run_map lines 510-519: install_map returned Ok, launch is invoked.
RunMapLaunches ==
    /\ map_pc = "done" /\ map_res.kind = "ok"
    /\ launched' = TRUE
    /\ map_pc' = "end"
    /\ UNCHANGED <<cache, expected_hash, dl_res, map_res, map_log, map_calls>>
    /\ UNCHANGED <<zipFsVars, verVars, libVars, modVars, ordVars, findVars, dmVars,
                   playVars, accVars>>

\* run_map lines 510-516: install_map returned Err, run_map prints it and
\* returns.
RunMapReturns ==
    /\ map_pc = "done" /\ map_res.kind = "err"
    /\ map_pc' = "end"
    /\ UNCHANGED <<cache, expected_hash, dl_res, map_res, map_log, map_calls, launched>>
    /\ UNCHANGED <<zipFsVars, verVars, libVars, modVars, ordVars, findVars, dmVars,
                   playVars, accVars>>

\* The command is run again (after run_map returned, or after a panic ended
\* the process).
InstallMapAgain ==
    /\ map_pc = "end" \/ (map_pc = "done" /\ map_res = Panic)
    /\ map_calls < MaxCalls
    /\ map_pc' = "idle"
    /\ launched' = FALSE
    /\ UNCHANGED <<cache, expected_hash, dl_res, map_res, map_log, map_calls>>
    /\ UNCHANGED <<zipFsVars, verVars, libVars, modVars, ordVars, findVars, dmVars,
                   playVars, accVars>>

NextMap ==
    \/ ExpectedHashFails \/ ExpectedHashArrives
    \/ VerifyPanics \/ VerifyHit \/ VerifyStale \/ VerifyStaleRemoveFails
    \/ DownloadRequestFails \/ DownloadCreateFails \/ DownloadWriteFails
    \/ DownloadHashPanics
    \/ DownloadVerified \/ DownloadMismatch \/ DownloadMismatchRemoveFails
    \/ InstallOpenFails \/ InstallUsesExisting \/ InstallExtracts
    \/ RunMapLaunches \/ RunMapReturns
    \/ InstallMapAgain

SpecMap == InitMap /\ [][NextMap]_vars

Logged(e) == \E i \in 1..Len(map_log) : map_log[i].ev = e

\* C2: when the digest of the freshly downloaded bytes differs from the
\* expected one, the fetch removes the just-written cache file and returns an
\* integrity error to its caller, for download_map and for install_map.
C2_DownloadDiffers ==
    \E i \in 1..Len(map_log) :
        /\ map_log[i].ev = "hash_download"
        /\ ~HashMatches(Sha256(map_log[i].content), expected_hash)

C2_MismatchReported ==
    (map_pc = "done" /\ C2_DownloadDiffers) =>
        /\ cache = NoFile
        /\ dl_res = Err("Integrity")
        /\ map_res = Err("Integrity")

\* C3: in every execution of install_map, extraction starts only on a cache
\* file whose digest equals the expected digest, and a file whose digest
\* differs is never returned as the artifact.
C3_OnlyVerifiedExtracted ==
    /\ \A i \in 1..Len(map_log) :
          map_log[i].ev = "extract" =>
              HashMatches(Sha256(map_log[i].content), expected_hash)
    /\ (map_pc = "done" /\ map_res.kind = "ok") =>
          (cache # NoFile /\ HashMatches(Sha256(cache), expected_hash))

\* Positions of the events named e in the log of the current call.
EventsNamed(e) == { i \in 1..Len(map_log) : map_log[i].ev = e }

\* C14: when install_map finds an existing cache file whose digest equals
\* the expected digest, it issues no request to the download URL and leaves
\* the cache file as it is.
C14_CacheHit ==
    \A i \in EventsNamed("hash_cache") :
        Trim(Sha256(map_log[i].content)) = Trim(expected_hash) =>
            /\ EventsNamed("get_zip") = {}
            /\ EventsNamed("write_cache") = {}
            /\ EventsNamed("remove_cache") = {}
            /\ EventsNamed("remove_download") = {}
            /\ cache = map_log[i].content

C14_Witness ==
    /\ map_pc = "end" /\ map_res.kind = "ok" /\ map_calls = 2
    /\ \E i \in EventsNamed("hash_cache") :
          Trim(Sha256(map_log[i].content)) = Trim(expected_hash)
    /\ EventsNamed("get_zip") = {}

\* C15: when install_map finds an existing cache file whose digest differs
\* from the expected digest, the digest is checked before any reuse, the
\* stale file is deleted before the download request is issued, and exactly
\* one download is attempted in that call.
C15_Stale ==
    \E i \in EventsNamed("hash_cache") :
        Trim(Sha256(map_log[i].content)) # Trim(expected_hash)

C15_CheckedAndDeletedFirst ==
    /\ \A i \in EventsNamed("hash_cache"), j \in EventsNamed("open_archive") : i < j
    /\ \A j \in EventsNamed("get_zip") : \E i \in EventsNamed("remove_cache") : i < j
    /\ \A i \in EventsNamed("hash_cache"), j \in EventsNamed("remove_cache") : i < j

C15_ExactlyOneDownload ==
    (C15_Stale /\ map_pc \in {"done", "end"}) =>
        /\ C15_CheckedAndDeletedFirst
        /\ Cardinality(EventsNamed("get_zip")) = 1

\* C15 (amended): the digest is checked before any reuse, the download
\* request is issued only after the stale file was deleted, and at most one
\* download is attempted; exactly one is attempted when the deletion
\* succeeded, and when the deletion failed the call ends with that error,
\* having issued no download request and with the cache file still in place.
C15_StaleHandled ==
    C15_Stale =>
        /\ C15_CheckedAndDeletedFirst
        /\ Cardinality(EventsNamed("get_zip")) <= 1
        /\ (map_pc \in {"install", "done", "end"} /\ EventsNamed("remove_cache") # {})
              => Cardinality(EventsNamed("get_zip")) = 1
        /\ (map_pc \in {"install", "done", "end"} /\ EventsNamed("remove_cache") = {})
              => /\ map_res = Err("Io")
                 /\ EventsNamed("get_zip") = {}
                 /\ EventsNamed("open_archive") = {}
                 /\ cache # NoFile

C15_Witness ==
    /\ C15_Stale /\ map_pc = "end" /\ map_res.kind = "ok"
    /\ EventsNamed("remove_cache") # {}
    /\ Cardinality(EventsNamed("get_zip")) = 1
    /\ EventsNamed("extract") # {}

\* C16: the comparison of the computed digest with the expected digest
\* ignores letter case and surrounding whitespace: digests that differ only
\* in these are treated as a match, after download and on cache
\* re-verification.
C16_Upper == <<"A", "B", "C", "D", "E", "F">>
C16_Lower == <<"a", "b", "c", "d", "e", "f">>

C16_ToLower(s) ==
    [i \in 1..Len(s) |->
        IF \E k \in 1..Len(C16_Upper) : C16_Upper[k] = s[i]
        THEN C16_Lower[CHOOSE k \in 1..Len(C16_Upper) : C16_Upper[k] = s[i]]
        ELSE s[i]]

C16_SameDigest(a, b) == C16_ToLower(Trim(a)) = C16_ToLower(Trim(b))

C16_CaseAndSpaceIgnored ==
    /\ \A i \in EventsNamed("hash_download") :
          C16_SameDigest(Sha256(map_log[i].content), expected_hash) =>
              /\ dl_res = Ok(MapId)
              /\ cache = map_log[i].content
    /\ \A i \in EventsNamed("hash_cache") :
          C16_SameDigest(Sha256(map_log[i].content), expected_hash) =>
              /\ EventsNamed("remove_cache") = {}
              /\ EventsNamed("get_zip") = {}
              /\ map_res # Err("Io")

\* C19: if fetching or extracting the selected map fails in install_map (the
\* expected-digest request fails, the download fails, the digest differs, or
\* the archive cannot be read or extracted), run_map never invokes launch.
C19_InstallFailed ==
    \/ map_res.kind = "err"
    \/ dl_res.kind = "err"
    \/ \E i \in EventsNamed("hash_download") :
          ~HashMatches(Sha256(map_log[i].content), expected_hash)

C19_NoLaunchAfterFailure == C19_InstallFailed => ~launched

\* C29: when install_map reaches install_map_from_path (overwrite_ask =
\* false) and saves/<root name> already exists, nothing is extracted, the
\* directory is left as it is, and the root name is returned as success, also
\* when the cached archive was re-downloaded with a new digest in this call.
C29_TargetExists ==
    /\ map_pc = "install"
    /\ cache # NoFile /\ IsZip(cache)
    /\ get_root_folder_name(ArchiveOf(cache), MapId).kind = "name"
    /\ Canon(Saves \o <<get_root_folder_name(ArchiveOf(cache), MapId).name>>)
          \in dirs \cup files

C29_ExistingLeftAlone ==
    [][(C29_TargetExists /\ map_pc' # map_pc) =>
          /\ dirs' = dirs /\ files' = files /\ written' = written
          /\ map_log' = Append(map_log, Event("open_archive", cache))
          /\ map_res' = Ok(get_root_folder_name(ArchiveOf(cache), MapId).name)]_vars

\* The second call removed the stale cache file, downloaded and verified the
\* other release, and returned Ok without extracting it.
C29_Witness ==
    /\ map_calls = 2 /\ map_pc = "done" /\ map_res = Ok("top")
    /\ EventsNamed("remove_cache") # {}
    /\ EventsNamed("hash_download") # {}
    /\ EventsNamed("extract") = {}
    /\ cache = "release2"
    /\ Canon(Saves \o <<"top">>) \in dirs
    /\ Canon(Saves \o <<"top", "sub">>) \notin dirs

(***************************************************************************)
(* map.rs: fetch_maps, find_maps                                           *)
(***************************************************************************)
UpperCase == <<"A", "B", "C", "D", "E", "F", "G", "H", "I", "J", "K", "L", "M",
               "N", "O", "P", "Q", "R", "S", "T", "U", "V", "W", "X", "Y", "Z">>
LowerCase == <<"a", "b", "c", "d", "e", "f", "g", "h", "i", "j", "k", "l", "m",
               "n", "o", "p", "q", "r", "s", "t", "u", "v", "w", "x", "y", "z">>

\* str::to_lowercase on the characters of the model (ASCII)
to_lowercase(s) ==
    [i \in 1..Len(s) |->
        IF \E k \in 1..26 : UpperCase[k] = s[i]
        THEN LowerCase[CHOOSE k \in 1..26 : UpperCase[k] = s[i]]
        ELSE s[i]]

\* str::split_whitespace: the maximal runs of non-whitespace characters.
RECURSIVE SplitWhitespaceFrom(_, _, _)
SplitWhitespaceFrom(s, i, cur) ==
    IF i > Len(s) THEN (IF cur = <<>> THEN <<>> ELSE <<cur>>)
    ELSE IF IsWhitespace(s[i])
         THEN (IF cur = <<>> THEN <<>> ELSE <<cur>>) \o SplitWhitespaceFrom(s, i + 1, <<>>)
         ELSE SplitWhitespaceFrom(s, i + 1, Append(cur, s[i]))

split_whitespace(s) == SplitWhitespaceFrom(s, 1, <<>>)

Map_sky ==
    [id |-> <<"s", "k", "y">>, name |-> <<"S", "k", "y", " ", "W", "a", "r", "s">>, tags |-> <<<<"p", "v", "p">>>>, map_type |-> "map"]
Map_skyblock ==
    [id |-> <<"s", "k", "y", "b", "l", "o", "c", "k">>, name |-> <<"S", "k", "y", " ", "B", "l", "o", "c", "k">>, tags |-> <<<<"s", "u", "r", "v", "i", "v", "a", "l">>>>, map_type |-> "map"]
Map_duel ==
    [id |-> <<"d", "u", "e", "l">>, name |-> <<"P", "V", "P">>, tags |-> <<>>, map_type |-> "map"]
Map_pvparena ==
    [id |-> <<"p", "v", "p", "a", "r", "e", "n", "a">>, name |-> <<"A", "r", "e", "n", "a">>, tags |-> <<<<"P", "v", "P">>, <<"t", "e", "a", "m">>>>, map_type |-> "map"]
Map_lobby ==
    [id |-> <<"l", "o", "b", "b", "y">>, name |-> <<"s", "k", "y">>, tags |-> <<<<"p", "v", "p">>>>, map_type |-> "server"]

CatalogEntries == { Map_sky, Map_skyblock, Map_duel, Map_pvparena, Map_lobby }
MaxMaps == 2

\* What the catalog endpoint may serve.
Catalogs == UNION { [1..n -> CatalogEntries] : n \in 0..MaxMaps }

Queries ==
    { <<"s", "k", "y">>,
      <<"S", "K", "Y">>,
      <<"S", "k", "y", " ", "W", "a", "r", "s">>,
      <<"p", "v", "p">>,
      <<"p", "v", "p", " ", "a", "r", "e", "n", "a">>,
      <<"a", "r", "e", "n", "a", " ", " ", "p", "v", "p">>,
      <<>>,
      <<"w", "a", "r", "s">>,
      <<" ", "s", "k", "y">>,
      <<"x", " ", "y">>,
      <<"B", "l", "o", "c", "k">> }

\* fetch_maps line 34: only the entries of type "map" are kept.
fetch_maps(served) == SelectSeq(served, LAMBDA m : m.map_type = "map")

\* An exact match on the identifier alone.
IsExactMatchById(map, input) == to_lowercase(map.id) = input

\* find_maps lines 46-49 (input is lower-cased already)
IsExactMatch(map, input) ==
    \/ to_lowercase(map.id) = input
    \/ to_lowercase(map.name) = input
    \/ \E t \in 1..Len(map.tags) : to_lowercase(map.tags[t]) = input

\* line 62: format!("{} {} {}", id, name, tags.join(" ")).to_lowercase()
all_fields(map) ==
    to_lowercase(map.id \o <<" ">> \o map.name \o <<" ">> \o JoinStr(map.tags, " "))

\* A score that counts only when every keyword matches.
MatchScoreAll(map, keywords) ==
    IF \A k \in 1..Len(keywords) : Contains(all_fields(map), keywords[k])
    THEN Len(keywords) ELSE 0

\* lines 61-64
match_score(map, keywords) ==
    Cardinality({ k \in 1..Len(keywords) : Contains(all_fields(map), keywords[k]) })

FindNone == [kind |-> "none", maps |-> <<>>]
FindSome(maps) == [kind |-> "some", maps |-> maps]

\* find_maps lines 40-79 on the maps fetch_maps returned
find_maps(maps, raw_input) ==
    LET input == to_lowercase(raw_input)
        exact_matches == SelectSeq(maps, LAMBDA m : IsExactMatch(m, input))
        keywords == [k \in 1..Len(split_whitespace(input)) |->
                        to_lowercase(split_whitespace(input)[k])]
        scored == SelectSeq(maps, LAMBDA m : match_score(m, keywords) > 0)
    IN IF exact_matches # <<>> THEN FindSome(exact_matches)
       ELSE IF scored = <<>> THEN FindNone
       ELSE FindSome(scored)

(***************************************************************************)
(* Specification SpecFind: one call of find_maps on a served catalog.      *)
(***************************************************************************)
InitFind ==
    /\ PlayIdle /\ AccIdle
    /\ ZipIdle /\ VerIdle /\ LibIdle /\ ModIdle /\ MapIdle /\ OrdIdle /\ DmIdle
    /\ catalog \in Catalogs
    /\ query \in Queries
    /\ find_res = FindNotCalled

\* line 40: fetch_maps failed, find_maps returns None. The served catalog
\* is never seen by the caller.
FindMapsFetchFails ==
    /\ find_res = FindNotCalled
    /\ find_res' = FindNone
    /\ catalog' = <<>>
    /\ UNCHANGED query
    /\ UNCHANGED <<zipVars, verVars, libVars, modVars, mapVars, ordVars, dmVars,
                   playVars, accVars>>

FindMapsCall ==
    /\ find_res = FindNotCalled
    /\ find_res' = find_maps(fetch_maps(catalog), query)
    /\ UNCHANGED <<catalog, query>>
    /\ UNCHANGED <<zipVars, verVars, libVars, modVars, mapVars, ordVars, dmVars,
                   playVars, accVars>>

NextFind == FindMapsFetchFails \/ FindMapsCall

SpecFind == InitFind /\ [][NextFind]_vars

\* The entries of the catalog at the positions of a set, in catalog order.
RECURSIVE EntriesAt(_, _, _)
EntriesAt(maps, idx, i) ==
    IF i > Len(maps) THEN <<>>
    ELSE (IF i \in idx THEN <<maps[i]>> ELSE <<>>) \o EntriesAt(maps, idx, i + 1)

\* C17: find_maps is case-insensitive, and when at least one catalog entry
\* has its identifier, its name or one of its tags equal to the query, the
\* result is exactly the exactly-matching entries: an entry that matches
\* only by keyword substring is not included.
C17_Exact(maps, q) ==
    { i \in 1..Len(maps) :
        \/ to_lowercase(maps[i].id) = to_lowercase(q)
        \/ to_lowercase(maps[i].name) = to_lowercase(q)
        \/ \E t \in 1..Len(maps[i].tags) : to_lowercase(maps[i].tags[t]) = to_lowercase(q) }

C17_ExactOnly ==
    (find_res # FindNotCalled /\ catalog # <<>>) =>
        LET maps == fetch_maps(catalog)
        IN /\ find_res = find_maps(maps, to_lowercase(query))
           /\ \A q \in Queries :
                 to_lowercase(q) = to_lowercase(query) => find_res = find_maps(maps, q)
           /\ C17_Exact(maps, query) # {} =>
                 find_res = FindSome(EntriesAt(maps, C17_Exact(maps, query), 1))

C17_Witness ==
    /\ catalog = <<Map_skyblock, Map_sky>>
    /\ query = <<"S", "K", "Y">>
    /\ find_res = FindSome(<<Map_sky>>)

\* C18: when no catalog entry matches the query exactly, find_maps returns
\* exactly the entries for which at least one whitespace-delimited keyword of
\* the query is a substring of the lower-cased concatenation of identifier,
\* name and tags; a keyword that matches nothing excludes no entry (query
\* "pvp arena" returns an entry tagged "pvp").
C18_Keywords(q) == SeqToSet(split_whitespace(to_lowercase(q)))

C18_Matching(maps, q) ==
    { i \in 1..Len(maps) :
        \E k \in C18_Keywords(q) :
            Contains(to_lowercase(maps[i].id \o <<" ">> \o maps[i].name \o <<" ">>
                                    \o JoinStr(maps[i].tags, " ")), k) }

C18_KeywordMatches ==
    (find_res # FindNotCalled /\ catalog # <<>>) =>
        LET maps == fetch_maps(catalog)
        IN C17_Exact(maps, query) = {} =>
             /\ find_res.maps = EntriesAt(maps, C18_Matching(maps, query), 1)
             /\ find_res.kind = IF C18_Matching(maps, query) = {} THEN "none" ELSE "some"

C18_Witness ==
    /\ catalog = <<Map_sky, Map_skyblock>>
    /\ query = <<"p", "v", "p", " ", "a", "r", "e", "n", "a">>
    /\ find_res = FindSome(<<Map_sky>>)

(***************************************************************************)
(* Specification SpecDm: one call of download_mods on a mods directory     *)
(* left by an earlier install; the resolution of get_mod_download_urls     *)
(* runs inside it.                                                         *)
(***************************************************************************)
GameVersions == {"v1", "v2"}

\* A file <name>-AUTOUPDATE.jar of the mods directory: its logical name and
\* the run that wrote its content ("old": an earlier install, "new": this
\* run, "cut": this run, left incomplete by a failed write).
ModFile(n, g) == [name |-> n, gen |-> g]

\* What an earlier install may have left: a file for the base mod and for
\* the dependencies it had for that version.
PreviousInstalls == SUBSET { ModFile(n, "old") : n \in Queryable }

Requires(t) == [project_id |-> t, dependency_type |-> "required"]

\* The answers of the endpoint for the target version.
DmResponses ==
    {NoRelease, Release({})}
        \cup { Release({Requires(t)}) : t \in DepTargets }
        \cup { Release({Requires(t) : t \in OtherIds}) }

InitDm ==
    /\ PlayIdle /\ AccIdle
    /\ ZipIdle /\ VerIdle /\ LibIdle /\ MapIdle /\ OrdIdle /\ FindIdle
    /\ mod_graph \in [Queryable -> DmResponses]
    /\ to_process = <<>>
    /\ visited = {}
    /\ download_urls = <<>>
    /\ fetched = <<>>
    /\ res_pc = "idle"
    /\ mods_dir \in PreviousInstalls
    /\ saved_version \in GameVersions \cup {NoMarker}
    /\ dm_version \in GameVersions
    /\ dm_todo = <<>>
    /\ dm_res = "none"
    /\ dm_pc = "idle"
    /\ mods_before = mods_dir
    /\ installed = {}
    /\ launches = 1

\* download_mods lines 102-106: the marker names the target version.
DownloadModsSkips ==
    /\ dm_pc = "idle"
    /\ saved_version = dm_version
    /\ dm_res' = "ok"
    /\ dm_pc' = "done"
    /\ UNCHANGED <<mods_dir, saved_version, dm_version, dm_todo>>
    /\ UNCHANGED <<mods_before, installed, launches>>
    /\ UNCHANGED <<zipVars, verVars, libVars, modVars, mapVars, ordVars, findVars,
                   playVars, accVars>>

\* lines 116-127 removing every file of the directory.
IsAnyFile(f) == TRUE

\* The names lines 116-127 look for.
IsBaseFile(f) == f.name \in SeqToSet(MODS)

\* lines 108-127: the files of the base mods are removed.
DownloadModsCleans ==
    /\ dm_pc = "idle"
    /\ saved_version # dm_version
    /\ mods_dir' = { f \in mods_dir : ~IsBaseFile(f) }
    /\ dm_pc' = "resolve"
    /\ UNCHANGED <<saved_version, dm_version, dm_todo, dm_res>>
    /\ installed' = {}
    /\ UNCHANGED <<mods_before, launches>>
    /\ UNCHANGED <<zipVars, verVars, libVars, modVars, mapVars, ordVars, findVars,
                   playVars, accVars>>

\* line 124: remove_file fails, download_mods returns the error.
DownloadModsCleanFails ==
    /\ dm_pc = "idle"
    /\ saved_version # dm_version
    /\ \E f \in mods_dir : IsBaseFile(f)
    /\ dm_res' = "err"
    /\ dm_pc' = "done"
    /\ UNCHANGED <<mods_dir, saved_version, dm_version, dm_todo>>
    /\ UNCHANGED <<mods_before, installed, launches>>
    /\ UNCHANGED <<zipVars, verVars, libVars, modVars, mapVars, ordVars, findVars,
                   playVars, accVars>>

\* line 129: get_mod_download_urls runs.
DownloadModsResolves == dm_pc = "resolve" /\ NextMods

\* line 129: get_mod_download_urls returned an error.
DownloadModsResolveFails ==
    /\ dm_pc = "resolve" /\ res_pc = "err"
    /\ dm_res' = "err"
    /\ dm_pc' = "done"
    /\ UNCHANGED <<mods_dir, saved_version, dm_version, dm_todo>>
    /\ UNCHANGED <<mods_before, installed, launches>>
    /\ UNCHANGED <<zipVars, verVars, libVars, modVars, mapVars, ordVars, findVars,
                   playVars, accVars>>

\* lines 129-131: the list is returned.
DownloadModsResolved ==
    /\ dm_pc = "resolve" /\ res_pc = "ok"
    /\ dm_todo' = download_urls
    /\ dm_pc' = "write"
    /\ UNCHANGED <<mods_dir, saved_version, dm_version, dm_res>>
    /\ UNCHANGED <<mods_before, installed, launches>>
    /\ UNCHANGED <<zipVars, verVars, libVars, modVars, mapVars, ordVars, findVars,
                   playVars, accVars>>

\* lines 131-142: one file is fetched and written over what the path held.
DownloadModsWrites ==
    /\ dm_pc = "write" /\ dm_todo # <<>>
    /\ mods_dir' = { f \in mods_dir : f.name # Head(dm_todo) }
                       \cup {ModFile(Head(dm_todo), "new")}
    /\ dm_todo' = Tail(dm_todo)
    /\ UNCHANGED <<saved_version, dm_version, dm_res, dm_pc>>
    /\ UNCHANGED <<mods_before, installed, launches>>
    /\ UNCHANGED <<zipVars, verVars, libVars, modVars, mapVars, ordVars, findVars,
                   playVars, accVars>>

\* lines 132-141: the request or the body fails (nothing is written), or
\* fs::write fails (the file may be left cut short).
DownloadModsWriteFails ==
    /\ dm_pc = "write" /\ dm_todo # <<>>
    /\ \/ UNCHANGED mods_dir
       \/ mods_dir' = { f \in mods_dir : f.name # Head(dm_todo) }
                          \cup {ModFile(Head(dm_todo), "cut")}
    /\ dm_res' = "err"
    /\ dm_pc' = "done"
    /\ UNCHANGED <<saved_version, dm_version, dm_todo>>
    /\ UNCHANGED <<mods_before, installed, launches>>
    /\ UNCHANGED <<zipVars, verVars, libVars, modVars, mapVars, ordVars, findVars,
                   playVars, accVars>>

\* line 145
DownloadModsReturns ==
    /\ dm_pc = "write" /\ dm_todo = <<>>
    /\ dm_res' = "ok"
    /\ dm_pc' = "done"
    /\ UNCHANGED <<mods_dir, saved_version, dm_version, dm_todo>>
    /\ installed' = installed \cup {dm_version}
    /\ UNCHANGED <<mods_before, launches>>
    /\ UNCHANGED <<zipVars, verVars, libVars, modVars, mapVars, ordVars, findVars,
                   playVars, accVars>>

NextDm ==
    \/ DownloadModsSkips \/ DownloadModsCleans \/ DownloadModsCleanFails
    \/ DownloadModsResolves
    \/ DownloadModsResolveFails \/ DownloadModsResolved
    \/ DownloadModsWrites \/ DownloadModsWriteFails \/ DownloadModsReturns

SpecDm == InitDm /\ [][NextDm]_vars

\* C20: after download_mods completes successfully for a target version
\* different from the saved one, no <name>-AUTOUPDATE.jar file of the
\* previous install remains in the mods directory: every such file, of a base
\* mod or of a transitive dependency, was written during this run.
C20_NoStaleFiles ==
    (dm_pc = "done" /\ dm_res = "ok" /\ saved_version # dm_version) =>
        \A f \in mods_dir : f.gen = "new"

\* C26: when the resolution fails on an identifier, get_mod_download_urls
\* returns the error and no descriptor (the list built so far is dropped), and
\* download_mods returns that error without having written a mod file: the
\* directory holds what it held on entry less the files of the base mods,
\* which are not restored.
C26_ResolutionFailed == dm_pc = "done" /\ res_pc = "err"

C26_ErrorNothingWritten ==
    /\ res_pc = "err" => dm_todo = <<>>
    /\ C26_ResolutionFailed =>
        /\ dm_res = "err"
        /\ mods_dir = { f \in mods_before : f.name \notin SeqToSet(MODS) }
        /\ \A f \in mods_dir : f.gen = "old"

\* The resolution failed after a descriptor had been pushed, and a file of a
\* base mod and a file of a dependency were in the directory on entry.
C26_Witness ==
    /\ C26_ResolutionFailed
    /\ download_urls # <<>>
    /\ \E f \in mods_before : f.name \in SeqToSet(MODS)
    /\ \E f \in mods_before : f.name \notin SeqToSet(MODS)

(***************************************************************************)
(* Specification SpecLaunch: launches in sequence on a fresh mods          *)
(* directory. Each launch runs download_mods inside init_minecraft and     *)
(* then saves the version marker.                                          *)
(***************************************************************************)
MaxLaunches == 2

\* What .ovl holds when File::create succeeded and write_all failed.
EmptyMarker == ""

InitLaunch ==
    /\ PlayIdle /\ AccIdle
    /\ ZipIdle /\ VerIdle /\ LibIdle /\ MapIdle /\ OrdIdle /\ FindIdle
    /\ mod_graph \in [Queryable -> DmResponses]
    /\ to_process = <<>>
    /\ visited = {}
    /\ download_urls = <<>>
    /\ fetched = <<>>
    /\ res_pc = "idle"
    /\ mods_dir = {}
    /\ saved_version = NoMarker
    /\ dm_version \in GameVersions
    /\ dm_todo = <<>>
    /\ dm_res = "none"
    /\ dm_pc = "idle"
    /\ mods_before = {}
    /\ installed = {}
    /\ launches = 1

\* mc.rs line 249 after init_minecraft returned (lines 451-454 only print the
\* error of download_mods): used_version_save writes the marker.
LaunchSavesVersion ==
    /\ dm_pc = "done"
    /\ saved_version' = dm_version
    /\ dm_pc' = "launched"
    /\ UNCHANGED <<mods_dir, dm_version, dm_todo, dm_res, mods_before, installed,
                   launches>>
    /\ UNCHANGED <<zipVars, verVars, libVars, modVars, mapVars, ordVars, findVars,
                   playVars, accVars>>

\* mc.rs line 233: fetch_fabric failed and the unwrap panics before line 249;
\* or filesys.rs lines 37-47: File::create fails (the marker is left as it
\* was) or write_all fails (the marker is left empty).
LaunchEndsUnsaved ==
    /\ dm_pc = "done"
    /\ saved_version' \in {saved_version, EmptyMarker}
    /\ dm_pc' = "launched"
    /\ UNCHANGED <<mods_dir, dm_version, dm_todo, dm_res, mods_before, installed,
                   launches>>
    /\ UNCHANGED <<zipVars, verVars, libVars, modVars, mapVars, ordVars, findVars,
                   playVars, accVars>>

\* The next launch, of any version: download_mods is entered again.
LaunchAgain ==
    /\ dm_pc = "launched"
    /\ launches < MaxLaunches
    /\ launches' = launches + 1
    /\ dm_version' \in GameVersions
    /\ mods_before' = mods_dir
    /\ dm_todo' = <<>>
    /\ dm_res' = "none"
    /\ dm_pc' = "idle"
    /\ to_process' = <<>>
    /\ visited' = {}
    /\ download_urls' = <<>>
    /\ fetched' = <<>>
    /\ res_pc' = "idle"
    /\ UNCHANGED <<mods_dir, saved_version, installed, mod_graph>>
    /\ UNCHANGED <<zipVars, verVars, libVars, mapVars, ordVars, findVars,
                   playVars, accVars>>

NextLaunch ==
    \/ DownloadModsSkips \/ DownloadModsCleans \/ DownloadModsCleanFails
    \/ DownloadModsResolves
    \/ DownloadModsResolveFails \/ DownloadModsResolved
    \/ DownloadModsWrites \/ DownloadModsWriteFails \/ DownloadModsReturns
    \/ LaunchSavesVersion \/ LaunchEndsUnsaved \/ LaunchAgain

SpecLaunch == InitLaunch /\ [][NextLaunch]_vars

\* C25: across the launches, whenever the marker names a version V, the mods
\* of V were completely installed by a run of download_mods that succeeded;
\* a launch whose download_mods for V failed does not set the marker to V.
C25_MarkerAfterFailure ==
    dm_pc = "launched" /\ dm_res = "err" /\ saved_version = dm_version

C25_MarkerMeansInstalled ==
    saved_version \in GameVersions => saved_version \in installed

\* What follows: the next launch of V skips the download although no file of
\* a base mod is in the directory.
C25_SkippedWithoutMods ==
    /\ dm_pc = "done" /\ dm_res = "ok" /\ saved_version = dm_version
    /\ mods_before = mods_dir
    /\ ~\E f \in mods_dir : IsBaseFile(f) /\ f.gen = "new"
    /\ mod_graph["modA"].release

(***************************************************************************)
(* Specification SpecPlay: the Play and the Search command of main, from   *)
(* the selection of a map to the return of the handler.                    *)
(***************************************************************************)
PlayCommands == {"play", "search"}

\* cmd.rs line 72: the line shown for a map, of the fields carried here.
format_map(m) == m.name

\* cmd.rs lines 71-83: choice 0 is a prompt that ended in Err (cancelled, or
\* no option to show); otherwise the first map whose line is the chosen one.
select_from_multiple_maps(maps, choice) ==
    IF choice = 0 THEN NoMap
    ELSE LET line == format_map(maps[choice])
             first == CHOOSE i \in 1..Len(maps) :
                         /\ format_map(maps[i]) = line
                         /\ \A j \in 1..(i - 1) : format_map(maps[j]) # line
         IN maps[first]

InitPlay ==
    /\ ZipIdle /\ VerIdle /\ LibIdle /\ ModIdle /\ MapIdle /\ OrdIdle /\ DmIdle
    /\ AccIdle
    /\ catalog \in Catalogs
    /\ query \in Queries
    /\ find_res = FindNotCalled
    /\ play_cmd \in PlayCommands
    /\ play_pc = "idle"
    /\ selected_map = NoMap
    /\ run_map_fut = "none"

\* main.rs line 136 and select_map line 82: find_maps on the lower-cased
\* input; a failed fetch_maps gives None.
PlayFindMaps ==
    /\ play_cmd = "play" /\ play_pc = "idle"
    /\ find_res' \in {find_maps(fetch_maps(catalog), to_lowercase(query)), FindNone}
    /\ play_pc' = "found"
    /\ UNCHANGED <<catalog, query, play_cmd, selected_map, run_map_fut>>
    /\ UNCHANGED <<zipVars, verVars, libVars, modVars, mapVars, ordVars, dmVars, accVars>>

\* select_map lines 84-93 and main.rs line 140: no map, the handler returns.
PlayNoMaps ==
    /\ play_cmd = "play" /\ play_pc = "found"
    /\ find_res.maps = <<>>
    /\ play_pc' = "end"
    /\ UNCHANGED <<play_cmd, selected_map, run_map_fut>>
    /\ UNCHANGED <<zipVars, verVars, libVars, modVars, mapVars, ordVars, findVars,
                   dmVars, accVars>>

\* select_map lines 95-102: one match, the user confirms or declines.
PlayAsksYesNo ==
    /\ play_cmd = "play" /\ play_pc = "found"
    /\ Len(find_res.maps) = 1
    /\ \E yes \in BOOLEAN :
         /\ selected_map' = IF yes THEN find_res.maps[1] ELSE NoMap
         /\ play_pc' = IF yes THEN "call" ELSE "end"
    /\ UNCHANGED <<play_cmd, run_map_fut>>
    /\ UNCHANGED <<zipVars, verVars, libVars, modVars, mapVars, ordVars, findVars,
                   dmVars, accVars>>

\* select_map line 104: several matches, the user picks one or cancels.
PlaySelectsAmong ==
    /\ play_cmd = "play" /\ play_pc = "found"
    /\ Len(find_res.maps) > 1
    /\ \E choice \in 0..Len(find_res.maps) :
         /\ selected_map' = select_from_multiple_maps(find_res.maps, choice)
         /\ play_pc' = IF choice = 0 THEN "end" ELSE "call"
    /\ UNCHANGED <<play_cmd, run_map_fut>>
    /\ UNCHANGED <<zipVars, verVars, libVars, modVars, mapVars, ordVars, findVars,
                   dmVars, accVars>>

\* main.rs lines 256-261: fetch_maps failed, the handler returns.
SearchFetchFails ==
    /\ play_cmd = "search" /\ play_pc = "idle"
    /\ play_pc' = "end"
    /\ UNCHANGED <<play_cmd, selected_map, run_map_fut>>
    /\ UNCHANGED <<zipVars, verVars, libVars, modVars, mapVars, ordVars, findVars,
                   dmVars, accVars>>

\* main.rs lines 256-270: the user picks among all the maps, or cancels.
SearchSelects ==
    /\ play_cmd = "search" /\ play_pc = "idle"
    /\ \E choice \in 0..Len(fetch_maps(catalog)) :
         /\ selected_map' = select_from_multiple_maps(fetch_maps(catalog), choice)
         /\ play_pc' = IF choice = 0 THEN "end" ELSE "call"
    /\ UNCHANGED <<play_cmd, run_map_fut>>
    /\ UNCHANGED <<zipVars, verVars, libVars, modVars, mapVars, ordVars, findVars,
                   dmVars, accVars>>

\* main.rs lines 138 and 267, the statement `run_map(map);` in fn main (line
\* 58, not async): the call of the async fn builds its future, nothing polls
\* it, and the end of the statement drops it. The body of run_map (mc.rs
\* 509-520) is not entered: install_map is not called.
RunMapNotAwaited ==
    /\ play_pc = "call"
    /\ run_map_fut' = "dropped"
    /\ play_pc' = "end"
    /\ UNCHANGED <<play_cmd, selected_map>>
    /\ UNCHANGED <<zipVars, verVars, libVars, modVars, mapVars, ordVars, findVars,
                   dmVars, accVars>>

NextPlay ==
    \/ PlayFindMaps \/ PlayNoMaps \/ PlayAsksYesNo \/ PlaySelectsAmong
    \/ SearchFetchFails \/ SearchSelects
    \/ RunMapNotAwaited

SpecPlay == InitPlay /\ [][NextPlay]_vars

\* C24: once the Play or the Search command has obtained a selected map,
\* run_map for that map is executed (install_map is invoked for the map's
\* id) and has completed before the handler returns.
C24_HandlerReturnedWithMap == play_pc = "end" /\ selected_map # NoMap

C24_RunMapCompleted ==
    C24_HandlerReturnedWithMap => (run_map_fut = "completed" /\ map_calls > 0)

(***************************************************************************)
(* Specification SpecAcc: the commands that write the accounts file, run   *)
(* one after the other from a state with no file.                          *)
(***************************************************************************)
MaxOps == 3

AccountNames == {"alice", "bob", "carol"}

\* auth.rs lines 13-17 (the uuid plays no part in what follows)
Account(n, o) == [name |-> n, offline |-> o]

NewAccounts == { Account(n, o) : n \in AccountNames, o \in BOOLEAN }

\* auth.rs lines 55-58, as stored in the file
AccountsFile(sel, accs) == [exists |-> TRUE, selected |-> sel, accounts |-> accs]

\* An insertion that never looks for the name.
PushAlways(accounts, account) == Append(accounts, account)

\* add_account lines 135-143: the first account of that name is replaced,
\* or the account is pushed.
Upsert(accounts, account) ==
    IF \E i \in 1..Len(accounts) : accounts[i].name = account.name
    THEN LET first == CHOOSE i \in 1..Len(accounts) :
                         /\ accounts[i].name = account.name
                         /\ \A j \in 1..(i - 1) : accounts[j].name # account.name
         IN [accounts EXCEPT ![first] = account]
    ELSE Append(accounts, account)

\* add_account lines 131-152: the file after the account was obtained.
add_account(file, account) ==
    IF file.exists
    THEN AccountsFile(account.name, Upsert(file.accounts, account))
    ELSE AccountsFile(account.name, <<account>>)

\* cmd.rs lines 86-94: the line shown for an account.
format_account(a, selected) == <<a.name, a.offline, a.name = selected>>

\* cmd.rs lines 95-105: choice 0 is a prompt that ended in Err; otherwise
\* the first account whose line is the chosen one.
select_from_multiple_accounts(file, choice) ==
    LET line == format_account(file.accounts[choice], file.selected)
        first == CHOOSE i \in 1..Len(file.accounts) :
                    /\ format_account(file.accounts[i], file.selected) = line
                    /\ \A j \in 1..(i - 1) :
                          format_account(file.accounts[j], file.selected) # line
    IN file.accounts[first]

\* main.rs lines 109-130: what Logout writes.
LogoutFile(file) ==
    LET filtered == SelectSeq(file.accounts, LAMBDA a : a.name # file.selected)
    IN AccountsFile(IF filtered = <<>> THEN "" ELSE filtered[1].name, filtered)

InitAcc ==
    /\ ZipIdle /\ VerIdle /\ LibIdle /\ ModIdle /\ MapIdle /\ OrdIdle /\ FindIdle
    /\ DmIdle /\ PlayIdle
    /\ acc_file = NoAccountsFile
    /\ acc_last = "none"
    /\ acc_ops = 0

\* main.rs lines 62-65: Login runs add_account.
Login ==
    /\ acc_ops < MaxOps
    /\ \E account \in NewAccounts : acc_file' = add_account(acc_file, account)
    /\ acc_last' = "login"
    /\ acc_ops' = acc_ops + 1
    /\ UNCHANGED <<zipVars, verVars, libVars, modVars, mapVars, ordVars, findVars,
                   dmVars, playVars>>

\* add_account lines 108-111 and 124-127: the name is empty or the online
\* authentication fails, the process exits before the file is touched.
LoginExits ==
    /\ acc_ops < MaxOps
    /\ acc_last' = "login"
    /\ acc_ops' = acc_ops + 1
    /\ UNCHANGED acc_file
    /\ UNCHANGED <<zipVars, verVars, libVars, modVars, mapVars, ordVars, findVars,
                   dmVars, playVars>>

\* switch_account lines 83-98; fetch_file(true) lines 68-75 runs add_account
\* first when there is no file.
SwitchAccount ==
    /\ acc_ops < MaxOps
    /\ \E account \in NewAccounts :
         LET accounts == IF acc_file.exists THEN acc_file
                         ELSE add_account(acc_file, account)
         IN \E choice \in 0..Len(accounts.accounts) :
               acc_file' =
                  IF choice = 0 THEN accounts
                  ELSE AccountsFile(
                          select_from_multiple_accounts(accounts, choice).name,
                          accounts.accounts)
    /\ acc_last' = "switch"
    /\ acc_ops' = acc_ops + 1
    /\ UNCHANGED <<zipVars, verVars, libVars, modVars, mapVars, ordVars, findVars,
                   dmVars, playVars>>

\* main.rs lines 93-134; fetch_file(false) exits when there is no file, and
\* an empty list is only reported.
Logout ==
    /\ acc_ops < MaxOps
    /\ acc_file' = IF acc_file.exists /\ acc_file.accounts # <<>>
                   THEN LogoutFile(acc_file)
                   ELSE acc_file
    /\ acc_last' = "logout"
    /\ acc_ops' = acc_ops + 1
    /\ UNCHANGED <<zipVars, verVars, libVars, modVars, mapVars, ordVars, findVars,
                   dmVars, playVars>>

\* get_auth lines 157-165: with no file or with an empty list add_account
\* runs; the file is not written otherwise.
GetAuth ==
    /\ acc_ops < MaxOps
    /\ \E account \in NewAccounts :
         acc_file' = IF ~acc_file.exists \/ acc_file.accounts = <<>>
                     THEN add_account(acc_file, account)
                     ELSE acc_file
    /\ acc_last' = "get_auth"
    /\ acc_ops' = acc_ops + 1
    /\ UNCHANGED <<zipVars, verVars, libVars, modVars, mapVars, ordVars, findVars,
                   dmVars, playVars>>

NextAcc == Login \/ LoginExits \/ SwitchAccount \/ Logout \/ GetAuth

SpecAcc == InitAcc /\ [][NextAcc]_vars

\* C30: after any sequence of logins, account switches and logouts, the
\* stored accounts file has unique account names, and either its list is
\* empty and selected is the empty string, or selected is the name of
\* exactly one account of the list.
C30_NamesUnique ==
    \A i, j \in 1..Len(acc_file.accounts) :
        acc_file.accounts[i].name = acc_file.accounts[j].name => i = j

C30_FileInvariant ==
    acc_file.exists =>
        /\ C30_NamesUnique
        /\ \/ acc_file.accounts = <<>> /\ acc_file.selected = ""
           \/ Cardinality({ i \in 1..Len(acc_file.accounts) :
                              acc_file.accounts[i].name = acc_file.selected }) = 1

\* Two logins (the second one selects bob), then a switch back to alice:
\* two accounts stored, the first one selected.
C30_Witness ==
    /\ acc_ops = 3 /\ acc_last = "switch"
    /\ Len(acc_file.accounts) = 2
    /\ acc_file.selected = acc_file.accounts[1].name
    /\ acc_file.accounts[1].name = "alice" /\ acc_file.accounts[2].name = "bob"
=============================================================================
